---- MODULE Spec2Model ----
(***************************************************************************)
(* Book-review REST API (Rak-Code/BookReviewAPI backend).                  *)
(*                                                                         *)
(* The document stores (users, books, reviews), the access-control gate,   *)
(* the request validators and the controllers are modelled from the        *)
(* Express/Mongoose sources.  averageRating is kept in tenths (30 = 3.0),  *)
(* so that Math.round(avg * 10) / 10 is integer arithmetic.                *)
(***************************************************************************)
EXTENDS Integers, Sequences, FiniteSets, TLC

VARIABLES users, books, reviews, nextBookId, nextReviewId, reqs

vars == <<users, books, reviews, nextBookId, nextReviewId, reqs>>

\* The document stores and the id generators, as one value.
DB ==
    [users |-> users, books |-> books, reviews |-> reviews,
     nextBookId |-> nextBookId, nextReviewId |-> nextReviewId]

(***************************************************************************)
(* Bounds of the model.                                                    *)
(***************************************************************************)
MaxUsers == 2

MaxRaters == 3

MaxBooks == 2

MaxReviews == 2

MaxRatings == 3

MaxInFlight == 2

MaxVoters == 4

BookIds == 1..MaxBooks

\* req.user before protect has attached a user; also a missing ObjectId.
NoUser == 0


(***************************************************************************)
(* Request inputs.                                                         *)
(***************************************************************************)
\* A JWT as jwt.verify sees it: the userId claim, whether the signature was
\* made with JWT_SECRET, and whether the exp claim lies in the past.  A
\* token may name a user id that is not (or no longer) in the user store.
Token(userId, sig, expired) == [userId |-> userId, sig |-> sig, expired |-> expired]

Tokens ==
    {Token(u, "ok", FALSE) : u \in 1..(MaxRaters + 1)}
    \cup {Token(1, "ok", TRUE), Token(1, "forged", FALSE), Token(1, "forged", TRUE)}

NoToken == [userId |-> NoUser, sig |-> "none", expired |-> FALSE]

\* The Authorization header: absent, another scheme, "Bearer" with nothing
\* after it, or "Bearer <token>".
Headers ==
    {[scheme |-> "none", token |-> NoToken],
     [scheme |-> "Basic", token |-> NoToken],
     [scheme |-> "Bearer", token |-> NoToken]}
    \cup [scheme : {"Bearer"}, token : Tokens]

\* The header of a request that carries the token issued to user u.
BearerFor(u) == [scheme |-> "Bearer", token |-> Token(u, "ok", FALSE)]

Titles == {"Dune", "Emma"}

\* The title field before validation: "" fails notEmpty().
RawTitles == Titles \cup {""}

Authors == {"Herbert"}

\* Request bodies of the review routes: every valid rating with a text of
\* valid length (10..1000), and bodies that fail validateReview (rating
\* below or above the range, text too short).
ReviewBodies ==
    [rating : 1..5, reviewText : {"a long enough text"}]
    \cup {[rating |-> 0, reviewText |-> "a long enough text"],
          [rating |-> 6, reviewText |-> "a long enough text"],
          [rating |-> 5, reviewText |-> "short"]}

OkText == "a long enough text"

\* Titles with other letter case and with characters that are operators of
\* a regular expression.
CatalogTitles == {"Dune", "DUNE", "D.ne", "Dune (I)"}

\* Case folding (the 'i' flag), on the titles and authors drawn above.
Lower(s) ==
    CASE s = "Dune" -> "dune"
      [] s = "DUNE" -> "dune"
      [] s = "D.ne" -> "d.ne"
      [] s = "Dune (I)" -> "dune (i)"
      [] s = "Herbert" -> "herbert"
      [] s = "Emma" -> "emma"
      [] OTHER -> s

\* new RegExp(`^${pattern}$`, 'i') matches text: the pattern is not
\* escaped, so "." stands for any character and "(I)" is a group that
\* matches "I" without the parentheses.
RegExpTest(pattern, text) ==
    CASE pattern = "D.ne" -> Lower(text) \in {"dune", "d.ne"}
      [] pattern = "Dune (I)" -> Lower(text) = "dune i"
      [] OTHER -> Lower(pattern) = Lower(text)

(***************************************************************************)
(* A request, served: the stores it leaves and the response it sends.      *)
(* by: the middleware or controller that sent the response; user: req.user *)
(* as protect attached it (NoUser when it attached none).                  *)
(***************************************************************************)
Served(db, by, status, message, user) ==
    [db |-> db, by |-> by, status |-> status, message |-> message,
     user |-> user, token |-> NoToken]

(***************************************************************************)
(* middleware/auth.js                                                      *)
(***************************************************************************)
generateToken(userId) == Token(userId, "ok", FALSE)

\* protect without the User.findById lookup.
protectWithoutUserLookup(db, hdr) ==
    LET token == IF hdr.scheme = "Bearer" THEN hdr.token ELSE NoToken
    IN  IF token = NoToken
        THEN Served(db, "protect", 401, "Access denied. No token provided.", NoUser)
        ELSE IF token.sig # "ok"
        THEN Served(db, "protect", 401, "Invalid token. Please login again.", NoUser)
        ELSE IF token.expired
        THEN Served(db, "protect", 401, "Token expired. Please login again.", NoUser)
        ELSE Served(db, "next", 0, "", token.userId)

\* The outcome of protect: status 0 stands for next() with req.user = user.
protect(db, hdr) ==
    LET token == IF hdr.scheme = "Bearer" THEN hdr.token ELSE NoToken
    IN  IF token = NoToken
        THEN Served(db, "protect", 401, "Access denied. No token provided.", NoUser)
        ELSE IF token.sig # "ok"
        THEN Served(db, "protect", 401, "Invalid token. Please login again.", NoUser)
        ELSE IF token.expired
        THEN Served(db, "protect", 401, "Token expired. Please login again.", NoUser)
        ELSE IF ~(\E u \in db.users : u.id = token.userId)
        THEN Served(db, "protect", 401,
                    "Token is valid but user no longer exists", NoUser)
        ELSE Served(db, "next", 0, "", token.userId)

(***************************************************************************)
(* middleware/validation.js                                                *)
(***************************************************************************)
\* One validator of a chain, run on a field of the request: ok is its
\* verdict, msg its withMessage text.
Check(path, ok, msg) == [path |-> path, ok |-> ok, msg |-> msg]

Failed(check) == ~check.ok

\* A validation that stops at the first validator that fails.
validationResultFirst(checks) ==
    LET failed == SelectSeq(checks, Failed)
    IN  IF failed = <<>> THEN <<>>
        ELSE <<[path |-> failed[1].path, msg |-> failed[1].msg]>>

\* validationResult(req).array(): an entry for every validator that failed,
\* in the order of the chains.
validationResult(checks) ==
    LET failed == SelectSeq(checks, Failed)
    IN  [i \in 1..Len(failed) |-> [path |-> failed[i].path, msg |-> failed[i].msg]]

\* validateReview, on the ratings and texts drawn: "short" is under 10
\* characters.
reviewChecks(rating, text) ==
    <<Check("rating", rating \in 1..5, "Rating must be between 1 and 5"),
      Check("reviewText", text # "short",
            "Review text must be between 10 and 1000 characters")>>

\* validateBook, on the titles and authors drawn ("" fails notEmpty and
\* passes isLength({ max })); the other fields of the body are valid.
bookChecks(title, author) ==
    <<Check("title", title # "", "Book title is required"),
      Check("author", author # "", "Author is required")>>

validateReview(rating, text) == validationResult(reviewChecks(rating, text)) = <<>>

validateBook(title, author) == validationResult(bookChecks(title, author)) = <<>>

\* handleValidationErrors when errors is not empty: 400 with the list.
handleValidationErrors(db, user, errors) ==
    [db |-> db, by |-> "handleValidationErrors", status |-> 400,
     message |-> "Validation failed", user |-> user, token |-> NoToken,
     errors |-> errors]

(***************************************************************************)
(* models/Review.js and models/Book.js                                     *)
(***************************************************************************)
ReviewsOf(revs, bookId) == {i \in DOMAIN revs : revs[i].bookId = bookId}

RECURSIVE SumRatings(_, _)
SumRatings(revs, ids) ==
    IF ids = {} THEN 0
    ELSE LET i == CHOOSE j \in ids : TRUE
         IN  revs[i].rating + SumRatings(revs, ids \ {i})

\* Math.round(x * 100): the mean kept to two decimals.
RoundHundredths(sum, count) == (200 * sum + count) \div (2 * count)

\* Math.floor in place of Math.round.
FloorTenths(sum, count) == (10 * sum) \div count

\* Math.round(x * 10) for x = sum / count >= 0: floor(10 * sum / count + 1/2).
RoundTenths(sum, count) == (20 * sum + count) \div (2 * count)

\* The $match/$group pipeline of updateRatingStats followed by the
\* assignment of this.averageRating and this.totalReviews.
RatingStats(revs, bookId) ==
    LET ids == ReviewsOf(revs, bookId)
    IN  IF ids # {}
        THEN [averageRating |-> RoundTenths(SumRatings(revs, ids), Cardinality(ids)),
              totalReviews |-> Cardinality(ids)]
        ELSE [averageRating |-> 0, totalReviews |-> 0]

\* updateRatingStats without the else branch: an empty aggregate result
\* leaves the cached fields as they are.
updateRatingStatsNoReset(bks, revs, bookId) ==
    IF ReviewsOf(revs, bookId) = {} THEN bks
    ELSE LET stats == RatingStats(revs, bookId)
         IN  [bks EXCEPT ![bookId].averageRating = stats.averageRating,
                         ![bookId].totalReviews = stats.totalReviews]

\* book.updateRatingStats(): the aggregate and this.save().
updateRatingStats(bks, revs, bookId) ==
    LET stats == RatingStats(revs, bookId)
    IN  [bks EXCEPT ![bookId].averageRating = stats.averageRating,
                    ![bookId].totalReviews = stats.totalReviews]

\* The hooks without the call of updateRatingStats.
PostReviewHookSkipped(bks, revs, bookId) == bks

\* post('save') and post('findOneAndDelete'): Book.findById(doc.bookId),
\* then updateRatingStats when the book is found.
PostReviewHook(bks, revs, bookId) ==
    IF bookId \in DOMAIN bks THEN updateRatingStats(bks, revs, bookId) ELSE bks

\* pre('save') on a new document: findOne({bookId, userId}).
PreSaveDuplicate(revs, bookId, userId) ==
    \E i \in DOMAIN revs : revs[i].bookId = bookId /\ revs[i].userId = userId

\* The index declared without unique: true.
PlainIndexAccepts(revs, bookId, userId) == TRUE

\* The unique index {bookId: 1, userId: 1}: whether an insert is accepted.
UniqueIndexAccepts(revs, bookId, userId) ==
    ~(\E i \in DOMAIN revs : revs[i].bookId = bookId /\ revs[i].userId = userId)

NewReview(bookId, userId, rating, text) ==
    [bookId |-> bookId, userId |-> userId, rating |-> rating,
     reviewText |-> text, likes |-> <<>>]

NewBook(title, author, userId) ==
    [title |-> title, author |-> author, createdBy |-> userId,
     averageRating |-> 0, totalReviews |-> 0]

Put(f, k, v) == [i \in DOMAIN f \cup {k} |-> IF i = k THEN v ELSE f[i]]

Remove(f, ks) == [i \in DOMAIN f \ ks |-> f[i]]

(***************************************************************************)
(* The controllers, each run to completion on the stores db, with the      *)
(* model hooks its store calls trigger.                                    *)
(***************************************************************************)
\* controllers/bookController.js createBook
createBook(db, title, author, userId) ==
    IF \E b \in DOMAIN db.books :
          /\ RegExpTest(title, db.books[b].title)
          /\ RegExpTest(author, db.books[b].author)
    THEN Served(db, "createBook", 400,
                "A book with this title and author already exists", userId)
    ELSE Served([db EXCEPT !.books = Put(@, db.nextBookId,
                                          NewBook(title, author, userId)),
                           !.nextBookId = @ + 1],
                "createBook", 201, "Book created successfully", userId)

\* updateBook storing a fresh document in place of the loaded one.
updateBookReplace(db, bookId, title, author, userId) ==
    IF bookId \notin DOMAIN db.books
    THEN Served(db, "updateBook", 404, "Book not found", userId)
    ELSE IF db.books[bookId].createdBy # userId
    THEN Served(db, "updateBook", 403, "You can only update books you created",
                userId)
    ELSE Served([db EXCEPT !.books[bookId] = NewBook(title, author, userId)],
                "updateBook", 200, "Book updated successfully", userId)

\* controllers/bookController.js updateBook
updateBook(db, bookId, title, author, userId) ==
    IF bookId \notin DOMAIN db.books
    THEN Served(db, "updateBook", 404, "Book not found", userId)
    ELSE IF db.books[bookId].createdBy # userId
    THEN Served(db, "updateBook", 403, "You can only update books you created",
                userId)
    ELSE Served([db EXCEPT !.books[bookId].title = title,
                           !.books[bookId].author = author],
                "updateBook", 200, "Book updated successfully", userId)

\* deleteBook without the Review.deleteMany call.
deleteBookKeepReviews(db, bookId) == db

\* deleteBook, first store call: Review.deleteMany({ bookId }).
deleteBookReviews(db, bookId) ==
    [db EXCEPT !.reviews = Remove(@, ReviewsOf(@, bookId))]

\* deleteBook, second store call: Book.findByIdAndDelete(bookId).
deleteBookDoc(db, bookId) ==
    [db EXCEPT !.books = Remove(@, {bookId})]

\* controllers/bookController.js deleteBook, run to completion.
deleteBook(db, bookId, userId) ==
    IF bookId \notin DOMAIN db.books
    THEN Served(db, "deleteBook", 404, "Book not found", userId)
    ELSE IF db.books[bookId].createdBy # userId
    THEN Served(db, "deleteBook", 403, "You can only delete books you created",
                userId)
    ELSE Served(deleteBookDoc(deleteBookReviews(db, bookId), bookId),
                "deleteBook", 200,
                "Book and associated reviews deleted successfully", userId)

\* createReview without the controller's findOne pre-check.
createReviewNoPreCheck(db, bookId, rating, text, userId) ==
    IF bookId \notin DOMAIN db.books
    THEN Served(db, "createReview", 404, "Book not found", userId)
    ELSE IF PreSaveDuplicate(db.reviews, bookId, userId)
            \/ ~UniqueIndexAccepts(db.reviews, bookId, userId)
    THEN Served(db, "createReview", 500,
                "Internal server error while creating review", userId)
    ELSE LET revs == Put(db.reviews, db.nextReviewId,
                         NewReview(bookId, userId, rating, text))
         IN  Served([db EXCEPT !.reviews = revs,
                               !.nextReviewId = @ + 1,
                               !.books = PostReviewHook(@, revs, bookId)],
                    "createReview", 201, "Review submitted successfully", userId)

\* controllers/reviewController.js createReview, with review.save() run to
\* completion: the pre('save') hook, the insert under the unique index and
\* the post('save') hook.  An error thrown by save() reaches the catch
\* block, which answers 500 unless it is a ValidationError or a CastError.
createReview(db, bookId, rating, text, userId) ==
    IF bookId \notin DOMAIN db.books
    THEN Served(db, "createReview", 404, "Book not found", userId)
    ELSE IF \E i \in DOMAIN db.reviews :
               db.reviews[i].bookId = bookId /\ db.reviews[i].userId = userId
    THEN Served(db, "createReview", 400, "You have already reviewed this book",
                userId)
    ELSE IF PreSaveDuplicate(db.reviews, bookId, userId)
            \/ ~UniqueIndexAccepts(db.reviews, bookId, userId)
    THEN Served(db, "createReview", 500,
                "Internal server error while creating review", userId)
    ELSE LET revs == Put(db.reviews, db.nextReviewId,
                         NewReview(bookId, userId, rating, text))
         IN  Served([db EXCEPT !.reviews = revs,
                               !.nextReviewId = @ + 1,
                               !.books = PostReviewHook(@, revs, bookId)],
                    "createReview", 201, "Review submitted successfully", userId)

\* controllers/reviewController.js updateReview; review.save() of an
\* existing document skips the duplicate check (isNew is false) and runs
\* the post('save') hook.
updateReview(db, reviewId, rating, text, userId) ==
    IF reviewId \notin DOMAIN db.reviews
    THEN Served(db, "updateReview", 404, "Review not found", userId)
    ELSE IF db.reviews[reviewId].userId # userId
    THEN Served(db, "updateReview", 403, "You can only update your own reviews",
                userId)
    ELSE LET revs == [db.reviews EXCEPT ![reviewId].rating = rating,
                                        ![reviewId].reviewText = text]
         IN  Served([db EXCEPT !.reviews = revs,
                               !.books = PostReviewHook(@, revs,
                                             db.reviews[reviewId].bookId)],
                    "updateReview", 200, "Review updated successfully", userId)

\* deleteReview without the ownership comparison.
deleteReviewByAnyone(db, reviewId, userId) ==
    IF reviewId \notin DOMAIN db.reviews
    THEN Served(db, "deleteReview", 404, "Review not found", userId)
    ELSE LET revs == Remove(db.reviews, {reviewId})
         IN  Served([db EXCEPT !.reviews = revs,
                               !.books = PostReviewHook(@, revs,
                                             db.reviews[reviewId].bookId)],
                    "deleteReview", 200, "Review deleted successfully", userId)

\* controllers/reviewController.js deleteReview; Review.findByIdAndDelete
\* runs the post('findOneAndDelete') hook with the removed document.
deleteReview(db, reviewId, userId) ==
    IF reviewId \notin DOMAIN db.reviews
    THEN Served(db, "deleteReview", 404, "Review not found", userId)
    ELSE IF db.reviews[reviewId].userId # userId
    THEN Served(db, "deleteReview", 403, "You can only delete your own reviews",
                userId)
    ELSE LET revs == Remove(db.reviews, {reviewId})
         IN  Served([db EXCEPT !.reviews = revs,
                               !.books = PostReviewHook(@, revs,
                                             db.reviews[reviewId].bookId)],
                    "deleteReview", 200, "Review deleted successfully", userId)

\* The elements of an array.
Range(seq) == {seq[i] : i \in 1..Len(seq)}

\* MongooseArray.indexOf on ObjectIds (compared by value); 0 stands for -1.
indexOf(likes, userId) ==
    IF userId \in Range(likes)
    THEN CHOOSE i \in 1..Len(likes) :
            likes[i] = userId /\ \A j \in 1..(i - 1) : likes[j] # userId
    ELSE 0

\* likes.splice(index, 1)
splice(likes, index) ==
    [i \in 1..(Len(likes) - 1) |-> IF i < index THEN likes[i] ELSE likes[i + 1]]

\* A response with data: { likes }.
WithLikes(out, count) ==
    [db |-> out.db, by |-> out.by, status |-> out.status, message |-> out.message,
     user |-> out.user, token |-> out.token, likes |-> count]

\* toggleLikeReview with Array.prototype.indexOf on ObjectId objects, which
\* compares by reference and never finds the user.
toggleLikeReviewByReference(db, reviewId, userId) ==
    IF reviewId \notin DOMAIN db.reviews
    THEN WithLikes(Served(db, "toggleLikeReview", 404, "Review not found", userId), 0)
    ELSE LET likes == Append(db.reviews[reviewId].likes, userId)
             revs == [db.reviews EXCEPT ![reviewId].likes = likes]
         IN  WithLikes(Served([db EXCEPT !.reviews = revs,
                                         !.books = PostReviewHook(@, revs,
                                                       db.reviews[reviewId].bookId)],
                              "toggleLikeReview", 200, "Review liked", userId),
                       Len(likes))

\* controllers/reviewController.js toggleLikeReview; review.save() of an
\* existing document runs the post('save') hook.
toggleLikeReview(db, reviewId, userId) ==
    IF reviewId \notin DOMAIN db.reviews
    THEN WithLikes(Served(db, "toggleLikeReview", 404, "Review not found", userId), 0)
    ELSE LET userLikeIndex == indexOf(db.reviews[reviewId].likes, userId)
             likes == IF userLikeIndex = 0
                      THEN Append(db.reviews[reviewId].likes, userId)
                      ELSE splice(db.reviews[reviewId].likes, userLikeIndex)
             revs == [db.reviews EXCEPT ![reviewId].likes = likes]
         IN  WithLikes(Served([db EXCEPT !.reviews = revs,
                                         !.books = PostReviewHook(@, revs,
                                                       db.reviews[reviewId].bookId)],
                              "toggleLikeReview", 200,
                              IF userLikeIndex = 0 THEN "Review liked"
                              ELSE "Review unliked", userId),
                       Len(likes))

(***************************************************************************)
(* The listings.  A query parameter is a number or Absent; the response    *)
(* carries the ids of the documents of the page, in order.                 *)
(***************************************************************************)
\* req.query.page / req.query.limit when the parameter is not sent.
Absent == -1

\* parseInt(req.query.page) || 1
parsePage(raw) == IF raw = Absent \/ raw = 0 THEN 1 ELSE raw

\* parseInt(req.query.limit) || 10
parseLimit(raw) == IF raw = Absent \/ raw = 0 THEN 10 ELSE raw

\* Math.floor(total / limit) in place of Math.ceil.
FloorPages(total, limit) == total \div limit

\* Math.ceil(total / limit)
CeilPages(total, limit) == (total + limit - 1) \div limit

\* .skip(skip).limit(limit) on the ordered result of a query.
SkipLimit(ordered, skip, limit) ==
    [k \in 1..(IF Len(ordered) - skip < 0 THEN 0
               ELSE IF Len(ordered) - skip < limit THEN Len(ordered) - skip
               ELSE limit) |-> ordered[skip + k]]

\* .sort({ createdAt: -1 }): documents are created in the order of their ids.
RECURSIVE SortByCreatedAtDesc(_)
SortByCreatedAtDesc(ids) ==
    IF ids = {} THEN <<>>
    ELSE LET newest == CHOOSE i \in ids : \A j \in ids : j <= i
         IN  <<newest>> \o SortByCreatedAtDesc(ids \ {newest})

\* The pagination block of a listing response.
Listing(ordered, page, limit) ==
    [status |-> 200, message |-> "",
     items |-> SkipLimit(ordered, (page - 1) * limit, limit),
     currentPage |-> page,
     totalPages |-> CeilPages(Len(ordered), limit),
     total |-> Len(ordered),
     limit |-> limit,
     hasNext |-> page < CeilPages(Len(ordered), limit),
     hasPrev |-> page > 1]

\* A listing request answered without a listing.
NoListing(status, message) ==
    [status |-> status, message |-> message, items |-> <<>>, currentPage |-> 0,
     totalPages |-> 0, total |-> 0, limit |-> 0, hasNext |-> FALSE,
     hasPrev |-> FALSE]

\* validatePagination: page optional, isInt({ min: 1 }); limit optional,
\* isInt({ min: 1, max: 100 }).
validatePagination(rawPage, rawLimit) ==
    /\ rawPage = Absent \/ rawPage >= 1
    /\ rawLimit = Absent \/ rawLimit \in 1..100

\* parseInt(req.query.reviewLimit) || 5
parseReviewLimit(raw) == IF raw = Absent \/ raw = 0 THEN 5 ELSE raw

\* The search terms drawn: empty, plain text in either case, and text that
\* a regular expression reads as an operator.
SearchTerms == {"", "DUNE", "e", "herb", ".", "("}

\* req.query.type when the parameter is not sent.
NoType == "undefined"

SearchTypes == {NoType, "title", "author", "both", "isbn"}

\* part occurs in text, both in lower case, on the terms and fields drawn.
Contains(text, part) ==
    CASE part = "dune" -> text \in {"dune", "dune (i)"}
      [] part = "e" -> text \in {"dune", "emma", "herbert", "d.ne", "dune (i)"}
      [] part = "herb" -> text = "herbert"
      [] part = "." -> text = "d.ne"
      [] part = "(" -> text = "dune (i)"
      [] OTHER -> FALSE

\* The server compiles { $regex: pattern }: an unbalanced parenthesis is
\* rejected.
RegExpValid(pattern) == pattern # "("

\* { $regex: pattern, $options: 'i' } on a field: the pattern is not
\* escaped, unanchored, and a dot stands for any character.
RegExpSearch(pattern, text) ==
    IF pattern = "." THEN text # ""
    ELSE Contains(Lower(text), Lower(pattern))

\* .sort({ averageRating: -1, createdAt: -1 })
RECURSIVE SortByRatingDesc(_, _)
SortByRatingDesc(bks, ids) ==
    IF ids = {} THEN <<>>
    ELSE LET first == CHOOSE i \in ids : \A j \in ids :
                          \/ bks[i].averageRating > bks[j].averageRating
                          \/ /\ bks[i].averageRating = bks[j].averageRating
                             /\ j <= i
         IN  <<first>> \o SortByRatingDesc(bks, ids \ {first})

\* validateSearch: q trimmed, 1..100 characters; type optional, one of
\* title, author, both.
validateSearch(q, type) ==
    /\ q # ""
    /\ type \in {NoType, "title", "author", "both"}

\* controllers/bookController.js searchBooks
searchBooks(db, q, rawType, rawPage, rawLimit) ==
    LET type == IF rawType = NoType THEN "both" ELSE rawType
        found == {b \in DOMAIN db.books :
                    CASE type = "title" -> RegExpSearch(q, db.books[b].title)
                      [] type = "author" -> RegExpSearch(q, db.books[b].author)
                      [] OTHER -> \/ RegExpSearch(q, db.books[b].title)
                                  \/ RegExpSearch(q, db.books[b].author)}
    IN  IF q = "" THEN NoListing(400, "Search term is required")
        ELSE IF ~RegExpValid(q)
        THEN NoListing(500, "Internal server error while searching books")
        ELSE Listing(SortByRatingDesc(db.books, found), parsePage(rawPage),
                     parseLimit(rawLimit))

\* controllers/bookController.js getBookById: the book with a page of its
\* reviews.
getBookById(db, bookId, rawPage, rawLimit) ==
    IF bookId \notin DOMAIN db.books THEN NoListing(404, "Book not found")
    ELSE Listing(SortByCreatedAtDesc(ReviewsOf(db.reviews, bookId)),
                 parsePage(rawPage), parseReviewLimit(rawLimit))

\* controllers/reviewController.js getBookReviews: every review of the
\* book, with results = reviews.length and no pagination block.
getBookReviews(db, bookId) ==
    LET all == SortByCreatedAtDesc(ReviewsOf(db.reviews, bookId))
    IN  [status |-> 200, message |-> "", items |-> all, results |-> Len(all)]

\* controllers/reviewController.js getUserReviews
getUserReviews(db, userId, rawPage, rawLimit) ==
    Listing(SortByCreatedAtDesc({i \in DOMAIN db.reviews :
                                    db.reviews[i].userId = userId}),
            parsePage(rawPage), parseLimit(rawLimit))

\* { $size: { $filter: ... $gte ... } } in place of $eq.
BucketAtLeast(revs, ids, r) == Cardinality({i \in ids : revs[i].rating >= r})

\* { $size: { $filter: { input: '$numRatings', cond: { $eq: [rating, r] } } } }
Bucket(revs, ids, r) == Cardinality({i \in ids : revs[i].rating = r})

\* { $round: ['$avgRating', 1] } in tenths: the aggregation operator rounds
\* a half to the even neighbour.
RoundHalfEven(sum, count) ==
    LET q == (10 * sum) \div count
        r == (10 * sum) % count
    IN  IF 2 * r < count THEN q
        ELSE IF 2 * r > count THEN q + 1
        ELSE IF q % 2 = 0 THEN q ELSE q + 1

\* controllers/reviewController.js getReviewStats: stats[0] of the
\* pipeline, or the default when the $match selects nothing.
getReviewStats(db, bookId) ==
    LET ids == ReviewsOf(db.reviews, bookId)
    IN  [status |-> 200, message |-> "",
         stats |->
            IF ids # {}
            THEN [avgRating |-> RoundHalfEven(SumRatings(db.reviews, ids),
                                              Cardinality(ids)),
                  numReviews |-> Cardinality(ids),
                  ratingDistribution |->
                      [r \in 1..5 |-> Bucket(db.reviews, ids, r)]]
            ELSE [avgRating |-> 0, numReviews |-> 0,
                  ratingDistribution |-> [r \in 1..5 |-> 0]]]

\* controllers/bookController.js getAllBooks, without author or genre filter.
getAllBooks(db, rawPage, rawLimit) ==
    Listing(SortByCreatedAtDesc(DOMAIN db.books), parsePage(rawPage),
            parseLimit(rawLimit))

(***************************************************************************)
(* The routes: the middleware chain in the order the routers register it.  *)
(***************************************************************************)
\* POST /books: protect, validateBook, createBook
CreateBook(db, hdr, title, author) ==
    LET auth == protect(db, hdr)
    IN  IF auth.status # 0 THEN auth
        ELSE IF ~validateBook(title, author)
        THEN handleValidationErrors(db, auth.user,
                                    validationResult(bookChecks(title, author)))
        ELSE createBook(db, title, author, auth.user)

\* PUT /books/:id: protect, validateObjectId, validateBook, updateBook
UpdateBook(db, hdr, bookId, title, author) ==
    LET auth == protect(db, hdr)
    IN  IF auth.status # 0 THEN auth
        ELSE IF ~validateBook(title, author)
        THEN handleValidationErrors(db, auth.user,
                                    validationResult(bookChecks(title, author)))
        ELSE updateBook(db, bookId, title, author, auth.user)

\* DELETE /books/:id: protect, validateObjectId, deleteBook
DeleteBook(db, hdr, bookId) ==
    LET auth == protect(db, hdr)
    IN  IF auth.status # 0 THEN auth
        ELSE deleteBook(db, bookId, auth.user)

\* POST /books/:id/reviews: protect, validateObjectId, validateReview,
\* createReview
CreateReview(db, hdr, bookId, rating, text) ==
    LET auth == protect(db, hdr)
    IN  IF auth.status # 0 THEN auth
        ELSE IF ~validateReview(rating, text)
        THEN handleValidationErrors(db, auth.user,
                                    validationResult(reviewChecks(rating, text)))
        ELSE createReview(db, bookId, rating, text, auth.user)

\* PUT /reviews/:id with validateReview registered before protect.
UpdateReviewValidateFirst(db, hdr, reviewId, rating, text) ==
    LET auth == protect(db, hdr)
    IN  IF ~validateReview(rating, text)
        THEN handleValidationErrors(db, NoUser,
                                    validationResult(reviewChecks(rating, text)))
        ELSE IF auth.status # 0 THEN auth
        ELSE updateReview(db, reviewId, rating, text, auth.user)

\* PUT /reviews/:id: protect, validateReview, updateReview
UpdateReview(db, hdr, reviewId, rating, text) ==
    LET auth == protect(db, hdr)
    IN  IF auth.status # 0 THEN auth
        ELSE IF ~validateReview(rating, text)
        THEN handleValidationErrors(db, auth.user,
                                    validationResult(reviewChecks(rating, text)))
        ELSE updateReview(db, reviewId, rating, text, auth.user)

\* DELETE /reviews/:id: protect, deleteReview
DeleteReview(db, hdr, reviewId) ==
    LET auth == protect(db, hdr)
    IN  IF auth.status # 0 THEN auth
        ELSE deleteReview(db, reviewId, auth.user)

\* POST /reviews/:id/like: protect, toggleLikeReview
ToggleLike(db, hdr, reviewId) ==
    LET auth == protect(db, hdr)
    IN  IF auth.status # 0 THEN WithLikes(auth, 0)
        ELSE toggleLikeReview(db, reviewId, auth.user)

\* GET /books: validatePagination, validateBookFilters, getAllBooks
GetAllBooks(db, rawPage, rawLimit) ==
    IF ~validatePagination(rawPage, rawLimit)
    THEN NoListing(400, "Validation failed")
    ELSE getAllBooks(db, rawPage, rawLimit)

\* GET /search: validateSearch, validatePagination, searchBooks
SearchBooks(db, q, type, rawPage, rawLimit) ==
    IF ~validateSearch(q, type) \/ ~validatePagination(rawPage, rawLimit)
    THEN NoListing(400, "Validation failed")
    ELSE searchBooks(db, q, type, rawPage, rawLimit)

\* GET /books/:id: validateObjectId('id'), getBookById
GetBookById(db, bookId, rawPage, rawLimit) ==
    getBookById(db, bookId, rawPage, rawLimit)

\* GET / of the review router: getBookReviews
GetBookReviews(db, bookId) == getBookReviews(db, bookId)

\* GET /user/:userId of the review router: getUserReviews
GetUserReviews(db, userId, rawPage, rawLimit) ==
    getUserReviews(db, userId, rawPage, rawLimit)

\* GET /stats of the review router: getReviewStats
GetReviewStats(db, bookId) == getReviewStats(db, bookId)

(***************************************************************************)
(* Dispatch.  A path is the sequence of its segments; a route is a method, *)
(* a path pattern and the chain of middleware and handler it runs.         *)
(***************************************************************************)
Route(method, path, chain) == [method |-> method, path |-> path, chain |-> chain]

\* The segments of a pattern that bind a parameter.
Params == {":id", ":userId"}

\* A route's pattern matches the rest of the path, segment by segment.
Match(pattern, rest) ==
    /\ Len(pattern) = Len(rest)
    /\ \A i \in DOMAIN pattern : pattern[i] \in Params \/ pattern[i] = rest[i]

\* routes/auth.js
authRoutes ==
    <<Route("POST", <<"signup">>, <<"validateSignup", "signup">>),
      Route("POST", <<"login">>, <<"validateLogin", "login">>),
      Route("GET", <<"profile">>, <<"protect", "getProfile">>)>>

\* routes/books.js
bookRoutes ==
    <<Route("POST", <<"books">>, <<"protect", "validateBook", "createBook">>),
      Route("GET", <<"books">>,
            <<"validatePagination", "validateBookFilters", "getAllBooks">>),
      Route("GET", <<"search">>,
            <<"validateSearch", "validatePagination", "searchBooks">>),
      Route("GET", <<"books", ":id">>, <<"validateObjectId", "getBookById">>),
      Route("PUT", <<"books", ":id">>,
            <<"protect", "validateObjectId", "validateBook", "updateBook">>),
      Route("DELETE", <<"books", ":id">>,
            <<"protect", "validateObjectId", "deleteBook">>),
      Route("POST", <<"books", ":id", "reviews">>,
            <<"protect", "validateObjectId", "validateReview", "createReview">>)>>

\* routes/reviews.js
reviewRoutes ==
    <<Route("GET", <<>>, <<"getBookReviews">>),
      Route("GET", <<"user", ":userId">>, <<"getUserReviews">>),
      Route("GET", <<":id">>, <<"getReview">>),
      Route("POST", <<>>, <<"protect", "validateReview", "createReview">>),
      Route("PUT", <<":id">>, <<"protect", "validateReview", "updateReview">>),
      Route("DELETE", <<":id">>, <<"protect", "deleteReview">>),
      Route("POST", <<":id", "like">>, <<"protect", "toggleLikeReview">>),
      Route("GET", <<"stats">>, <<"getReviewStats">>)>>

\* app.use(prefix, router), in the order of app.js.
Mounts ==
    <<[prefix |-> <<"api", "auth">>, router |-> authRoutes],
      [prefix |-> <<"api", "books">>, router |-> bookRoutes],
      [prefix |-> <<"api", "reviews">>, router |-> reviewRoutes]>>

\* The 404 handler: app.use('*', ...).
NotFound == <<"notFound">>

Mounted(prefix, path) ==
    /\ Len(prefix) <= Len(path)
    /\ SubSeq(path, 1, Len(prefix)) = prefix

\* The first route of the router, in registration order, that takes the
\* request; 0 when none does and the router passes the request on.
FirstMatch(router, method, rest) ==
    LET hits == {i \in DOMAIN router :
                    router[i].method = method /\ Match(router[i].path, rest)}
    IN  IF hits = {} THEN 0
        ELSE CHOOSE i \in hits : \A j \in hits : i <= j

\* The chain the application runs for a request.
Dispatch(method, path) ==
    LET taking == {m \in DOMAIN Mounts :
                     /\ Mounted(Mounts[m].prefix, path)
                     /\ FirstMatch(Mounts[m].router, method,
                                   SubSeq(path, Len(Mounts[m].prefix) + 1,
                                          Len(path))) # 0}
    IN  IF taking # {}
        THEN LET m == CHOOSE x \in taking : \A y \in taking : x <= y
                 r == Mounts[m].router
             IN  r[FirstMatch(r, method,
                              SubSeq(path, Len(Mounts[m].prefix) + 1,
                                     Len(path)))].chain
        ELSE IF method = "GET" /\ path = <<"api", "health">>
        THEN <<"health">>
        ELSE NotFound

(***************************************************************************)
(* The user store.  models/User.js is not among the sources; its shape is  *)
(* the one the README's data-model section documents.                      *)
(***************************************************************************)
NamePool == <<"ann", "bob", "cat", "dan", "eve">>

MailPool == <<"ann@x.io", "bob@x.io", "cat@x.io", "dan@x.io", "eve@x.io">>

\* The pre-save password hash: not the identity.
hashPassword(password) == <<"bcrypt", password>>

comparePassword(user, candidate) == user.password = hashPassword(candidate)

\* The registered users the catalogue and review requests start from: each
\* the result of one successful signup.
SeedUsers(n) ==
    {[id |-> i, username |-> NamePool[i], email |-> MailPool[i],
      password |-> hashPassword("Passw0rd")] : i \in 1..n}

Usernames == {NamePool[i] : i \in 1..MaxUsers}

\* The email field as the client sends it.
RawEmails == {MailPool[i] : i \in 1..MaxUsers} \cup {"Ann@X.io"}

\* The password field of a signup: "weak" fails the validator's pattern.
SignupPasswords == {"Passw0rd", "Secr3tPw", "weak"}

\* The password field of a login: "" fails notEmpty().
LoginPasswords == {"Passw0rd", "Secr3tPw", ""}

\* express-validator's normalizeEmail(), on the addresses drawn above.
normalizeEmail(email) == IF email = "Ann@X.io" THEN "ann@x.io" ELSE email

\* validateSignup, on the fields drawn: "" fails both validators of the
\* username, "weak" both validators of the password.
signupChecks(username, email, password) ==
    <<Check("username", username # "",
            "Username must be between 3 and 30 characters"),
      Check("username", username # "",
            "Username can only contain letters, numbers, and underscores"),
      Check("email", email # "", "Please provide a valid email"),
      Check("password", password # "weak",
            "Password must be at least 6 characters long"),
      Check("password", password # "weak",
            "Password must contain at least one lowercase letter, one uppercase letter, and one number")>>

\* validateLogin
loginChecks(email, password) ==
    <<Check("email", email # "", "Please provide a valid email"),
      Check("password", password # "", "Password is required")>>

validateSignup(username, email, password) ==
    validationResult(signupChecks(username, email, password)) = <<>>

validateLogin(email, password) ==
    validationResult(loginChecks(email, password)) = <<>>

\* The unique indexes of the user collection: the key patterns an insert of
\* (username, email) violates.
DuplicateKeys(db, username, email) ==
    {f \in {"username", "email"} :
        \E u \in db.users : u[f] = (IF f = "email" THEN email ELSE username)}

\* A new ObjectId; users are never deleted.
NewUser(db, username, email, password) ==
    [id |-> Cardinality(db.users) + 1, username |-> username, email |-> email,
     password |-> hashPassword(password)]

(***************************************************************************)
(* controllers/authController.js                                           *)
(***************************************************************************)
\* The documents User.findOne({ $or: [{ email }, { username }] }) may return.
findExistingUser(db, username, email) ==
    {u \in db.users : u.email = email \/ u.username = username}

\* The field named after a conflict, always 'username'.
conflictFieldUsername(existingUser, email) == "username"

\* const field = existingUser.email === email ? 'email' : 'username'
conflictField(existingUser, email) ==
    IF existingUser.email = email THEN "email" ELSE "username"

\* `User with this ${field} already exists`
alreadyExists(db, field) ==
    Served(db, "signup", 400,
           IF field = "email" THEN "User with this email already exists"
           ELSE "User with this username already exists", NoUser)

\* signup from user.save() on: the insert under the unique indexes, the
\* duplicate-key (11000) branch of the catch block, the token.
saveUser(db, username, email, password) ==
    IF DuplicateKeys(db, username, email) # {}
    THEN {alreadyExists(db, f) : f \in DuplicateKeys(db, username, email)}
    ELSE LET user == NewUser(db, username, email, password)
         IN  {[Served([db EXCEPT !.users = @ \cup {user}], "signup", 201,
                      "User registered successfully", NoUser)
                 EXCEPT !.token = generateToken(user.id)]}

\* signup, run to completion: the outcomes it can have.
signup(db, username, email, password) ==
    IF findExistingUser(db, username, email) # {}
    THEN {alreadyExists(db, conflictField(u, email)) :
             u \in findExistingUser(db, username, email)}
    ELSE saveUser(db, username, email, password)

\* login that tells an unknown email from a wrong password.
loginTellsApart(db, email, password) ==
    IF {u \in db.users : u.email = email} = {}
    THEN Served(db, "login", 404, "User not found", NoUser)
    ELSE LET user == CHOOSE u \in db.users : u.email = email
         IN  IF ~comparePassword(user, password)
             THEN Served(db, "login", 401, "Invalid email or password", NoUser)
             ELSE [Served(db, "login", 200, "Login successful", NoUser)
                      EXCEPT !.token = generateToken(user.id)]

login(db, email, password) ==
    IF {u \in db.users : u.email = email} = {}
    THEN Served(db, "login", 401, "Invalid email or password", NoUser)
    ELSE LET user == CHOOSE u \in db.users : u.email = email
         IN  IF ~comparePassword(user, password)
             THEN Served(db, "login", 401, "Invalid email or password", NoUser)
             ELSE [Served(db, "login", 200, "Login successful", NoUser)
                      EXCEPT !.token = generateToken(user.id)]

\* POST /signup: validateSignup, signup
Signup(db, username, email, password) ==
    IF ~validateSignup(username, email, password)
    THEN {handleValidationErrors(db, NoUser,
              validationResult(signupChecks(username, email, password)))}
    ELSE signup(db, username, normalizeEmail(email), password)

\* POST /login: validateLogin, login
Login(db, email, password) ==
    IF ~validateLogin(email, password)
    THEN handleValidationErrors(db, NoUser,
                                validationResult(loginChecks(email, password)))
    ELSE login(db, normalizeEmail(email), password)

(***************************************************************************)
(* Requests served one at a time, each to completion.  deleteBook is two   *)
(* store calls; the stores between them are a state of their own.          *)
(***************************************************************************)
Init ==
    /\ users = SeedUsers(MaxUsers)
    /\ books = <<>>
    /\ reviews = <<>>
    /\ nextBookId = 1
    /\ nextReviewId = 1
    /\ reqs = <<>>

Idle == reqs = <<>>

SetStores(db) ==
    /\ users' = db.users
    /\ books' = db.books
    /\ reviews' = db.reviews
    /\ nextBookId' = db.nextBookId
    /\ nextReviewId' = db.nextReviewId

\* The stores after a served request.  The id generators are capped: a
\* request that would draw an id beyond the cap is not taken.
Commit(out, reviewCap) ==
    /\ Idle
    /\ out.db.nextBookId <= MaxBooks + 1
    /\ out.db.nextReviewId <= reviewCap + 1
    /\ SetStores(out.db)
    /\ UNCHANGED reqs

\* protect answers before a route reads its parameters and body: a request
\* it refuses is drawn once, whatever they are.
Refused(h) == protect(DB, h).status # 0

DoCreateBook ==
    \E h \in Headers :
        IF Refused(h)
        THEN Commit(CreateBook(DB, h, "", "Herbert"), MaxReviews)
        ELSE \E t \in RawTitles, a \in Authors :
                Commit(CreateBook(DB, h, t, a), MaxReviews)

DoUpdateBook ==
    \E h \in Headers :
        IF Refused(h)
        THEN Commit(UpdateBook(DB, h, 1, "", "Herbert"), MaxReviews)
        ELSE \E b \in BookIds, t \in RawTitles, a \in Authors :
                Commit(UpdateBook(DB, h, b, t, a), MaxReviews)

\* deleteBook up to and including Review.deleteMany.
DoDeleteBookReviews ==
    \E h \in Headers :
        \E b \in IF Refused(h) THEN {1} ELSE BookIds :
            LET out == DeleteBook(DB, h, b)
            IN  /\ Idle
                /\ IF out.status # 200
                   THEN SetStores(out.db) /\ UNCHANGED reqs
                   ELSE /\ SetStores(deleteBookReviews(DB, b))
                        /\ reqs' = <<[op |-> "deleteBook", bookId |-> b]>>

\* deleteBook from Book.findByIdAndDelete on.
DoDeleteBookDoc ==
    /\ ~Idle
    /\ reqs[1].op = "deleteBook"
    /\ SetStores(deleteBookDoc(DB, reqs[1].bookId))
    /\ reqs' = <<>>

ServeCreateReview(cap) ==
    \E h \in Headers :
        IF Refused(h)
        THEN Commit(CreateReview(DB, h, 1, 0, "short"), cap)
        ELSE \E b \in BookIds, body \in ReviewBodies :
                Commit(CreateReview(DB, h, b, body.rating, body.reviewText), cap)

ServeUpdateReview(cap) ==
    \E h \in Headers :
        IF Refused(h)
        THEN Commit(UpdateReview(DB, h, 1, 0, "short"), cap)
        ELSE \E i \in 1..cap, body \in ReviewBodies :
                Commit(UpdateReview(DB, h, i, body.rating, body.reviewText), cap)

ServeDeleteReview(cap) ==
    \E h \in Headers :
        IF Refused(h)
        THEN Commit(DeleteReview(DB, h, 1), cap)
        ELSE \E i \in 1..cap : Commit(DeleteReview(DB, h, i), cap)

DoCreateReview == ServeCreateReview(MaxReviews)

DoUpdateReview == ServeUpdateReview(MaxReviews)

DoDeleteReview == ServeDeleteReview(MaxReviews)

Next ==
    \/ DoCreateBook
    \/ DoUpdateBook
    \/ DoDeleteBookReviews
    \/ DoDeleteBookDoc
    \/ DoCreateReview
    \/ DoUpdateReview
    \/ DoDeleteReview

Spec == Init /\ [][Next]_vars

(***************************************************************************)
(* The book routes alone, with the titles of CatalogTitles.                *)
(***************************************************************************)
CatalogCreate ==
    \E h \in Headers :
        IF Refused(h)
        THEN Commit(CreateBook(DB, h, "", "Herbert"), MaxReviews)
        ELSE \E t \in CatalogTitles \cup {""}, a \in Authors :
                Commit(CreateBook(DB, h, t, a), MaxReviews)

CatalogUpdate ==
    \E h \in Headers :
        IF Refused(h)
        THEN Commit(UpdateBook(DB, h, 1, "", "Herbert"), MaxReviews)
        ELSE \E b \in BookIds, t \in CatalogTitles \cup {""}, a \in Authors :
                Commit(UpdateBook(DB, h, b, t, a), MaxReviews)

CatalogNext ==
    \/ CatalogCreate
    \/ CatalogUpdate
    \/ DoDeleteBookReviews
    \/ DoDeleteBookDoc

CatalogSpec == Init /\ [][CatalogNext]_vars

(***************************************************************************)
(* A catalogue that grows to MaxListed books, and the book list.  reqs     *)
(* holds the last listing request with its response.                       *)
(***************************************************************************)
MaxListed == 25

\* The page and limit parameters drawn: absent, invalid (0, 101) and valid.
RawPages == {Absent, 0, 1, 2, 3, 4}

RawLimits == {Absent, 0, 1, 2, 7, 10, 100, 101}

ListAddBook ==
    LET out == CreateBook(DB, BearerFor(1), "Dune (I)", "Herbert")
    IN  /\ out.status = 201
        /\ out.db.nextBookId <= MaxListed + 1
        /\ SetStores(out.db)
        /\ reqs' = <<>>

ListBooks ==
    /\ \E p \in RawPages, l \in RawLimits :
          reqs' = <<[op |-> "getAllBooks", page |-> p, limit |-> l,
                     res |-> GetAllBooks(DB, p, l)]>>
    /\ UNCHANGED <<users, books, reviews, nextBookId, nextReviewId>>

\* Every book of this catalogue is by Herbert: the search finds them all.
ListSearch ==
    /\ \E p \in RawPages, l \in RawLimits :
          reqs' = <<[op |-> "searchBooks", page |-> p, limit |-> l,
                     res |-> SearchBooks(DB, "herb", "author", p, l)]>>
    /\ UNCHANGED <<users, books, reviews, nextBookId, nextReviewId>>

ListNext == ListAddBook \/ ListBooks \/ ListSearch

ListSpec == Init /\ [][ListNext]_vars

(***************************************************************************)
(* The review routes alone, on a catalogue of two books: up to MaxRatings  *)
(* reviews are ever written, by MaxRaters users, so that a book can hold    *)
(* three at once.                                                          *)
(***************************************************************************)
SeedBooks ==
    [b \in BookIds |->
        NewBook(IF b = 1 THEN "Dune" ELSE "Emma", "Herbert", 1)]

RatingInit ==
    /\ users = SeedUsers(MaxRaters)
    /\ books = SeedBooks
    /\ reviews = <<>>
    /\ nextBookId = MaxBooks + 1
    /\ nextReviewId = 1
    /\ reqs = <<>>

RateCreate == ServeCreateReview(MaxRatings)

RateUpdate == ServeUpdateReview(MaxRatings)

RateDelete == ServeDeleteReview(MaxRatings)

RatingNext == RateCreate \/ RateUpdate \/ RateDelete

RatingSpec == RatingInit /\ [][RatingNext]_vars

(***************************************************************************)
(* The review routes with the like route, on the two seeded books.         *)
(***************************************************************************)
LikeInit ==
    /\ users = SeedUsers(MaxUsers)
    /\ books = SeedBooks
    /\ reviews = <<>>
    /\ nextBookId = MaxBooks + 1
    /\ nextReviewId = 1
    /\ reqs = <<>>

LikeCreate == ServeCreateReview(MaxReviews)

LikeUpdate == ServeUpdateReview(MaxReviews)

LikeDelete == ServeDeleteReview(MaxReviews)

LikeToggle ==
    \E h \in Headers :
        \E i \in IF Refused(h) THEN {1} ELSE 1..MaxReviews :
            Commit(ToggleLike(DB, h, i), MaxReviews)

LikeNext == LikeCreate \/ LikeUpdate \/ LikeDelete \/ LikeToggle

LikeSpec == LikeInit /\ [][LikeNext]_vars

(***************************************************************************)
(* Requests in flight together.  reqs holds them, each with the await it    *)
(* is to resume from (pc) and, once answered, its response; the store      *)
(* calls of different requests interleave.                                 *)
(***************************************************************************)
Answer(req, status, message) ==
    [req EXCEPT !.pc = "done", !.status = status, !.message = message]

\* res.json has been written: the request leaves the server.
Respond(k) ==
    /\ reqs[k].pc = "done"
    /\ reqs' = [i \in 1..(Len(reqs) - 1) |-> IF i < k THEN reqs[i] ELSE reqs[i + 1]]
    /\ UNCHANGED <<users, books, reviews, nextBookId, nextReviewId>>

(***************************************************************************)
(* POST /books/:id/reviews, await by await, on the two seeded books.       *)
(* rejectedBy records which duplicate check turned the request down.       *)
(***************************************************************************)
NoStats == [averageRating |-> 0, totalReviews |-> 0]

RaceRatings == {1, 5}

ReviewReq(userId, bookId, rating) ==
    [op |-> "createReview", userId |-> userId, bookId |-> bookId,
     rating |-> rating, pc |-> "findBook", status |-> 0, message |-> "",
     rejectedBy |-> "", stats |-> NoStats]

\* The requests that have not reached the insert yet.
BeforeInsert ==
    {k \in DOMAIN reqs : reqs[k].pc \in {"findBook", "preCheck", "preSave", "insert"}}

\* protect and validateReview have passed; the controller starts.
RaceSubmit ==
    /\ Len(reqs) < MaxInFlight
    /\ nextReviewId + Cardinality(BeforeInsert) <= MaxReviews
    /\ \E h \in Headers, b \in 1..(MaxBooks + 1), r \in RaceRatings :
          /\ protect(DB, h).status = 0
          /\ validateReview(r, OkText)
          /\ reqs' = Append(reqs, ReviewReq(protect(DB, h).user, b, r))
    /\ UNCHANGED <<users, books, reviews, nextBookId, nextReviewId>>

\* await Book.findById(bookId)
RaceFindBook(k) ==
    /\ reqs[k].pc = "findBook"
    /\ reqs' = [reqs EXCEPT ![k] =
                  IF reqs[k].bookId \notin DOMAIN books
                  THEN Answer(@, 404, "Book not found")
                  ELSE [@ EXCEPT !.pc = "preCheck"]]
    /\ UNCHANGED <<users, books, reviews, nextBookId, nextReviewId>>

\* await Review.findOne({ bookId, userId })
RacePreCheck(k) ==
    /\ reqs[k].pc = "preCheck"
    /\ reqs' = [reqs EXCEPT ![k] =
                  IF \E i \in DOMAIN reviews :
                        /\ reviews[i].bookId = reqs[k].bookId
                        /\ reviews[i].userId = reqs[k].userId
                  THEN [Answer(@, 400, "You have already reviewed this book")
                           EXCEPT !.rejectedBy = "pre-check"]
                  ELSE [@ EXCEPT !.pc = "preSave"]]
    /\ UNCHANGED <<users, books, reviews, nextBookId, nextReviewId>>

\* review.save(), the pre('save') hook: its error is thrown into the
\* controller's catch block.
RacePreSave(k) ==
    /\ reqs[k].pc = "preSave"
    /\ reqs' = [reqs EXCEPT ![k] =
                  IF PreSaveDuplicate(reviews, reqs[k].bookId, reqs[k].userId)
                  THEN [Answer(@, 500, "Internal server error while creating review")
                           EXCEPT !.rejectedBy = "pre-save"]
                  ELSE [@ EXCEPT !.pc = "insert"]]
    /\ UNCHANGED <<users, books, reviews, nextBookId, nextReviewId>>

\* review.save(), the insert: a duplicate key error (E11000) is thrown into
\* the controller's catch block.
RaceInsert(k) ==
    /\ reqs[k].pc = "insert"
    /\ IF ~UniqueIndexAccepts(reviews, reqs[k].bookId, reqs[k].userId)
       THEN /\ reqs' = [reqs EXCEPT ![k] =
                          [Answer(@, 500, "Internal server error while creating review")
                              EXCEPT !.rejectedBy = "unique index"]]
            /\ UNCHANGED <<reviews, nextReviewId>>
       ELSE /\ reviews' = Put(reviews, nextReviewId,
                              NewReview(reqs[k].bookId, reqs[k].userId,
                                        reqs[k].rating, OkText))
            /\ nextReviewId' = nextReviewId + 1
            /\ reqs' = [reqs EXCEPT ![k].pc = "aggregate"]
    /\ UNCHANGED <<users, books, nextBookId>>

\* post('save'): Book.findById and the aggregate of updateRatingStats.
RaceAggregate(k) ==
    /\ reqs[k].pc = "aggregate"
    /\ reqs' = [reqs EXCEPT ![k] =
                  IF reqs[k].bookId \notin DOMAIN books
                  THEN Answer(@, 201, "Review submitted successfully")
                  ELSE [@ EXCEPT !.pc = "saveBook",
                                 !.stats = RatingStats(reviews, reqs[k].bookId)]]
    /\ UNCHANGED <<users, books, reviews, nextBookId, nextReviewId>>

\* post('save'): this.save() of updateRatingStats, then the response.
RaceSaveBook(k) ==
    /\ reqs[k].pc = "saveBook"
    /\ books' = IF reqs[k].bookId \notin DOMAIN books THEN books
                ELSE [books EXCEPT
                         ![reqs[k].bookId].averageRating = reqs[k].stats.averageRating,
                         ![reqs[k].bookId].totalReviews = reqs[k].stats.totalReviews]
    /\ reqs' = [reqs EXCEPT ![k] = Answer(@, 201, "Review submitted successfully")]
    /\ UNCHANGED <<users, reviews, nextBookId, nextReviewId>>

RaceInit ==
    /\ users = SeedUsers(MaxUsers)
    /\ books = SeedBooks
    /\ reviews = <<>>
    /\ nextBookId = MaxBooks + 1
    /\ nextReviewId = 1
    /\ reqs = <<>>

RaceNext ==
    \/ RaceSubmit
    \/ \E k \in DOMAIN reqs : RaceFindBook(k)
    \/ \E k \in DOMAIN reqs : RacePreCheck(k)
    \/ \E k \in DOMAIN reqs : RacePreSave(k)
    \/ \E k \in DOMAIN reqs : RaceInsert(k)
    \/ \E k \in DOMAIN reqs : RaceAggregate(k)
    \/ \E k \in DOMAIN reqs : RaceSaveBook(k)
    \/ \E k \in DOMAIN reqs : Respond(k)

RaceSpec == RaceInit /\ [][RaceNext]_vars

(***************************************************************************)
(* POST /signup await by await, and POST /login, on an empty user store.   *)
(***************************************************************************)
AuthReq(op, username, email, password) ==
    [op |-> op, username |-> username, email |-> email, password |-> password,
     pc |-> "findOne", status |-> 0, message |-> "", token |-> NoToken]

Answered(req, out) ==
    [req EXCEPT !.pc = "done", !.status = out.status, !.message = out.message,
                !.token = out.token]

\* validateSignup, with the email as normalizeEmail leaves it in req.body.
SignupSubmit ==
    /\ Len(reqs) < MaxInFlight
    /\ \E n \in Usernames, e \in RawEmails, p \in SignupPasswords :
          LET req == AuthReq("signup", n, normalizeEmail(e), p)
          IN  reqs' = Append(reqs,
                         IF ~validateSignup(n, e, p)
                         THEN Answered(req, handleValidationErrors(DB, NoUser,
                                  validationResult(signupChecks(n, e, p))))
                         ELSE req)
    /\ UNCHANGED <<users, books, reviews, nextBookId, nextReviewId>>

\* await User.findOne({ $or: [{ email }, { username }] })
SignupFindOne(k) ==
    /\ reqs[k].op = "signup"
    /\ reqs[k].pc = "findOne"
    /\ LET found == findExistingUser(DB, reqs[k].username, reqs[k].email)
       IN  IF found = {}
           THEN reqs' = [reqs EXCEPT ![k].pc = "save"]
           ELSE \E u \in found :
                   reqs' = [reqs EXCEPT ![k] =
                              Answered(@, alreadyExists(DB, conflictField(u, reqs[k].email)))]
    /\ UNCHANGED <<users, books, reviews, nextBookId, nextReviewId>>

\* await user.save(), then the token and the response.
SignupSave(k) ==
    /\ reqs[k].op = "signup"
    /\ reqs[k].pc = "save"
    /\ \E out \in saveUser(DB, reqs[k].username, reqs[k].email, reqs[k].password) :
          /\ users' = out.db.users
          /\ reqs' = [reqs EXCEPT ![k] = Answered(@, out)]
    /\ UNCHANGED <<books, reviews, nextBookId, nextReviewId>>

\* login reads the user once and writes nothing.
LoginServe ==
    /\ Len(reqs) < MaxInFlight
    /\ \E e \in RawEmails, p \in LoginPasswords :
          reqs' = Append(reqs, Answered(AuthReq("login", "", normalizeEmail(e), p),
                                        Login(DB, e, p)))
    /\ UNCHANGED <<users, books, reviews, nextBookId, nextReviewId>>

AuthInit ==
    /\ users = {}
    /\ books = <<>>
    /\ reviews = <<>>
    /\ nextBookId = 1
    /\ nextReviewId = 1
    /\ reqs = <<>>

AuthNext ==
    \/ SignupSubmit
    \/ \E k \in DOMAIN reqs : SignupFindOne(k)
    \/ \E k \in DOMAIN reqs : SignupSave(k)
    \/ LoginServe
    \/ \E k \in DOMAIN reqs : Respond(k)

AuthSpec == AuthInit /\ [][AuthNext]_vars

(***************************************************************************)
(* The review routes and the like route where the post hooks may fail: the *)
(* hooks catch and log every error of Book.findById and updateRatingStats, *)
(* so the review write stays and the book keeps the aggregates it had.     *)
(***************************************************************************)
\* The stores a served request leaves when its post hook threw.
(***************************************************************************)
(* The validated write routes with bodies that break the rules on none,    *)
(* one or both of their fields.  reqs holds the request being answered     *)
(* with its response.                                                      *)
(***************************************************************************)
FormHeaders ==
    {BearerFor(u) : u \in 1..MaxUsers} \cup {[scheme |-> "none", token |-> NoToken]}

FormAuthors == Authors \cup {""}

FormRatings == {0, 3, 6}

FormTexts == {OkText, "short"}

\* The request with the part of the response the client reads.
Form(op, title, author, rating, text, out) ==
    [op |-> op, title |-> title, author |-> author, rating |-> rating,
     reviewText |-> text,
     res |-> [status |-> out.status, by |-> out.by,
              errors |-> IF out.by = "handleValidationErrors"
                         THEN out.errors ELSE <<>>]]

FormServe(op, title, author, rating, text, out) ==
    /\ Idle
    /\ out.db.nextBookId <= MaxBooks + 1
    /\ out.db.nextReviewId <= MaxReviews + 1
    /\ SetStores(out.db)
    /\ reqs' = <<Form(op, title, author, rating, text, out)>>

FormCreateBook ==
    \E h \in FormHeaders, t \in RawTitles, a \in FormAuthors :
        FormServe("createBook", t, a, 0, "", CreateBook(DB, h, t, a))

FormUpdateBook ==
    \E h \in FormHeaders, b \in BookIds, t \in RawTitles, a \in FormAuthors :
        FormServe("updateBook", t, a, 0, "", UpdateBook(DB, h, b, t, a))

FormCreateReview ==
    \E h \in FormHeaders, b \in BookIds, r \in FormRatings, x \in FormTexts :
        FormServe("createReview", "", "", r, x, CreateReview(DB, h, b, r, x))

FormUpdateReview ==
    \E h \in FormHeaders, i \in 1..MaxReviews, r \in FormRatings, x \in FormTexts :
        FormServe("updateReview", "", "", r, x, UpdateReview(DB, h, i, r, x))

FormDone ==
    /\ ~Idle
    /\ reqs' = <<>>
    /\ UNCHANGED <<users, books, reviews, nextBookId, nextReviewId>>

FormNext ==
    \/ FormCreateBook
    \/ FormUpdateBook
    \/ FormCreateReview
    \/ FormUpdateReview
    \/ FormDone

FormSpec == Init /\ [][FormNext]_vars

(***************************************************************************)
(* Requests by method and path.  reqs holds the request being dispatched   *)
(* with the chain chosen for it.                                           *)
(***************************************************************************)
Methods == {"GET", "POST", "PUT", "DELETE"}

Segments ==
    {"auth", "books", "reviews", "search", "stats", "my-reviews", "user",
     "like", "1"}

MaxSegments == 4

\* /api followed by one to MaxSegments segments.
Paths ==
    UNION {{<<"api">> \o [i \in 1..n |-> f[i]] : f \in [1..n -> Segments]} :
              n \in 1..MaxSegments}

RouteRequest ==
    /\ Idle
    /\ \E method \in Methods, path \in Paths :
          reqs' = <<[method |-> method, path |-> path,
                     chain |-> Dispatch(method, path)]>>
    /\ UNCHANGED <<users, books, reviews, nextBookId, nextReviewId>>

RouteDone ==
    /\ ~Idle
    /\ reqs' = <<>>
    /\ UNCHANGED <<users, books, reviews, nextBookId, nextReviewId>>

RouteNext == RouteRequest \/ RouteDone

RouteSpec == LikeInit /\ [][RouteNext]_vars

(***************************************************************************)
(* The read routes over a catalogue whose books are being rated.  reqs     *)
(* holds the read request being answered, until its response is sent.      *)
(***************************************************************************)
BrowsePages == {Absent, 1, 2}

BrowseLimits == {Absent, 1, 101}

Query(op, id, q, type, page, limit, res) ==
    [op |-> op, id |-> id, q |-> q, type |-> type, page |-> page,
     limit |-> limit, res |-> res]

Answered1(query) ==
    /\ Idle
    /\ reqs' = <<query>>
    /\ UNCHANGED <<users, books, reviews, nextBookId, nextReviewId>>

BrowseSend ==
    /\ ~Idle
    /\ reqs' = <<>>
    /\ UNCHANGED <<users, books, reviews, nextBookId, nextReviewId>>

Written(out) == Commit(out, MaxReviews)

BrowseRate ==
    \E u \in {x.id : x \in users}, b \in BookIds, r \in 1..5 :
        Written(CreateReview(DB, BearerFor(u), b, r, OkText))

BrowseUnrate ==
    \E u \in {x.id : x \in users}, i \in 1..MaxReviews :
        Written(DeleteReview(DB, BearerFor(u), i))

BrowseBooks ==
    \E p \in BrowsePages, l \in BrowseLimits :
        Answered1(Query("getAllBooks", 0, "", NoType, p, l, GetAllBooks(DB, p, l)))

BrowseSearch ==
    \E q \in SearchTerms, t \in SearchTypes, p \in BrowsePages, l \in BrowseLimits :
        Answered1(Query("searchBooks", 0, q, t, p, l, SearchBooks(DB, q, t, p, l)))

BrowseBook ==
    \E b \in 1..(MaxBooks + 1), p \in BrowsePages, l \in BrowseLimits :
        Answered1(Query("getBookById", b, "", NoType, p, l,
                        GetBookById(DB, b, p, l)))

BrowseBookReviews ==
    \E b \in 1..(MaxBooks + 1) :
        Answered1(Query("getBookReviews", b, "", NoType, Absent, Absent,
                        GetBookReviews(DB, b)))

BrowseUserReviews ==
    \E u \in 1..(MaxUsers + 1), p \in BrowsePages, l \in BrowseLimits :
        Answered1(Query("getUserReviews", u, "", NoType, p, l,
                        GetUserReviews(DB, u, p, l)))

BrowseStats ==
    \E b \in 1..(MaxBooks + 1) :
        Answered1(Query("getReviewStats", b, "", NoType, Absent, Absent,
                        GetReviewStats(DB, b)))

BrowseNext ==
    \/ BrowseRate
    \/ BrowseUnrate
    \/ BrowseBooks
    \/ BrowseSearch
    \/ BrowseBook
    \/ BrowseBookReviews
    \/ BrowseUserReviews
    \/ BrowseStats
    \/ BrowseSend

BrowseSpec == LikeInit /\ [][BrowseNext]_vars

HookFailed(out) == [out EXCEPT !.db.books = books]

\* Whether the post hook of the request runs through.
HookOutcomes == {"ran", "threw"}

Settle(out, hook) ==
    Commit(IF hook = "ran" THEN out ELSE HookFailed(out), MaxReviews)

StaleCreate ==
    \E u \in {x.id : x \in users}, b \in BookIds, r \in RaceRatings, hook \in HookOutcomes :
        Settle(CreateReview(DB, BearerFor(u), b, r, OkText), hook)

StaleUpdate ==
    \E u \in {x.id : x \in users}, i \in 1..MaxReviews, r \in RaceRatings,
       hook \in HookOutcomes :
        Settle(UpdateReview(DB, BearerFor(u), i, r, OkText), hook)

StaleDelete ==
    \E u \in {x.id : x \in users}, i \in 1..MaxReviews, hook \in HookOutcomes :
        Settle(DeleteReview(DB, BearerFor(u), i), hook)

StaleToggle ==
    \E u \in {x.id : x \in users}, i \in 1..MaxReviews, hook \in HookOutcomes :
        Settle(ToggleLike(DB, BearerFor(u), i), hook)

StaleNext == StaleCreate \/ StaleUpdate \/ StaleDelete \/ StaleToggle

StaleSpec == LikeInit /\ [][StaleNext]_vars

(***************************************************************************)
(* POST /books await by await, with PUT /books/:id served between the      *)
(* steps.                                                                  *)
(***************************************************************************)
BookReq(userId, title, author) ==
    [op |-> "createBook", userId |-> userId, title |-> title, author |-> author,
     pc |-> "findOne", status |-> 0, message |-> "", rejectedBy |-> ""]

\* A unique index on { title, author } of the book collection.
BookUniqueIndexAccepts(bks, title, author) ==
    ~(\E b \in DOMAIN bks : bks[b].title = title /\ bks[b].author = author)

\* The indexes of bookSchema (text, author, genre, createdAt,
\* averageRating): none is unique, every insert is accepted.
BookIndexAccepts(bks, title, author) == TRUE

\* The requests that have not inserted their book yet.
BeforeBookSave == {k \in DOMAIN reqs : reqs[k].pc \in {"findOne", "save"}}

\* protect has passed; validateBook, then the controller starts.
BookSubmit ==
    /\ Len(reqs) < MaxInFlight
    /\ nextBookId + Cardinality(BeforeBookSave) <= MaxBooks
    /\ \E u \in {x.id : x \in users}, t \in RawTitles, a \in Authors :
          reqs' = Append(reqs,
                         IF validateBook(t, a) THEN BookReq(u, t, a)
                         ELSE Answer(BookReq(u, t, a), 400, "Validation failed"))
    /\ UNCHANGED <<users, books, reviews, nextBookId, nextReviewId>>

\* await Book.findOne({ title: { $regex }, author: { $regex } })
BookFindOne(k) ==
    /\ reqs[k].pc = "findOne"
    /\ reqs' = [reqs EXCEPT ![k] =
                  IF createBook(DB, reqs[k].title, reqs[k].author, reqs[k].userId).status = 400
                  THEN [Answer(@, 400, "A book with this title and author already exists")
                           EXCEPT !.rejectedBy = "findOne"]
                  ELSE [@ EXCEPT !.pc = "save"]]
    /\ UNCHANGED <<users, books, reviews, nextBookId, nextReviewId>>

\* await book.save(), then the response.
BookSave(k) ==
    /\ reqs[k].pc = "save"
    /\ IF ~BookIndexAccepts(books, reqs[k].title, reqs[k].author)
       THEN /\ reqs' = [reqs EXCEPT ![k] =
                          [Answer(@, 500, "Internal server error while creating book")
                              EXCEPT !.rejectedBy = "unique index"]]
            /\ UNCHANGED <<books, nextBookId>>
       ELSE /\ books' = Put(books, nextBookId,
                            NewBook(reqs[k].title, reqs[k].author, reqs[k].userId))
            /\ nextBookId' = nextBookId + 1
            /\ reqs' = [reqs EXCEPT ![k] = Answer(@, 201, "Book created successfully")]
    /\ UNCHANGED <<users, reviews, nextReviewId>>

\* PUT /books/:id by a user, served between the steps of the creations.
BookUpdate ==
    /\ \E u \in {x.id : x \in users}, b \in BookIds, t \in Titles, a \in Authors :
          SetStores(UpdateBook(DB, BearerFor(u), b, t, a).db)
    /\ UNCHANGED reqs

BookRaceNext ==
    \/ BookSubmit
    \/ \E k \in DOMAIN reqs : BookFindOne(k)
    \/ \E k \in DOMAIN reqs : BookSave(k)
    \/ BookUpdate
    \/ \E k \in DOMAIN reqs : Respond(k)

BookRaceSpec == Init /\ [][BookRaceNext]_vars

(***************************************************************************)
(* POST /reviews/:id/like await by await.  A request carries the likes of  *)
(* the document it loaded; behind says that the stored document was saved  *)
(* by another request since (its version key has moved on).                *)
(***************************************************************************)
LikeReq(userId, reviewId) ==
    [op |-> "toggleLikeReview", userId |-> userId, reviewId |-> reviewId,
     pc |-> "findReview", status |-> 0, message |-> "", loaded |-> <<>>,
     behind |-> FALSE, likes |-> 0]

\* A review is written between the toggles, by a request served whole.
LikeRaceCreate ==
    \E u \in {x.id : x \in users}, b \in BookIds :
        Commit(CreateReview(DB, BearerFor(u), b, 5, OkText), MaxReviews)

\* protect has passed; the controller starts.
LikeRaceSubmit ==
    /\ Len(reqs) < MaxInFlight
    /\ \E u \in {x.id : x \in users}, i \in 1..MaxReviews :
          reqs' = Append(reqs, LikeReq(u, i))
    /\ UNCHANGED <<users, books, reviews, nextBookId, nextReviewId>>

\* await Review.findById(reviewId)
LikeRaceFind(k) ==
    /\ reqs[k].op = "toggleLikeReview"
    /\ reqs[k].pc = "findReview"
    /\ reqs' = [reqs EXCEPT ![k] =
                  IF reqs[k].reviewId \notin DOMAIN reviews
                  THEN Answer(@, 404, "Review not found")
                  ELSE [@ EXCEPT !.pc = "save",
                                 !.loaded = reviews[reqs[k].reviewId].likes]]
    /\ UNCHANGED <<users, books, reviews, nextBookId, nextReviewId>>

\* The requests other than k that hold a copy of the same document.
Holders(k) ==
    {j \in DOMAIN reqs : j # k /\ reqs[j].pc = "save"
                                /\ reqs[j].reviewId = reqs[k].reviewId}

\* The toggle on the loaded copy, await review.save() and the response.
\* likes.push is sent as $push, which the store applies to the array it
\* holds; likes.splice is sent as $set of the whole array under the version
\* key the copy was loaded with, and fails when the document has moved on.
LikeRaceSave(k) ==
    /\ reqs[k].op = "toggleLikeReview"
    /\ reqs[k].pc = "save"
    /\ LET id == reqs[k].reviewId
           userLikeIndex == indexOf(reqs[k].loaded, reqs[k].userId)
           local == IF userLikeIndex = 0
                    THEN Append(reqs[k].loaded, reqs[k].userId)
                    ELSE splice(reqs[k].loaded, userLikeIndex)
           failed == userLikeIndex # 0 /\ reqs[k].behind
           stored == IF userLikeIndex = 0
                     THEN Append(reviews[id].likes, reqs[k].userId)
                     ELSE local
       IN  IF failed
           THEN /\ reqs' = [reqs EXCEPT ![k] =
                              Answer(@, 500, "Error toggling review like")]
                /\ UNCHANGED <<books, reviews>>
           ELSE /\ reviews' = [reviews EXCEPT ![id].likes = stored]
                /\ books' = PostReviewHook(books, reviews', reviews[id].bookId)
                /\ reqs' = [j \in DOMAIN reqs |->
                              IF j = k
                              THEN [Answer(reqs[k], 200,
                                           IF userLikeIndex = 0 THEN "Review liked"
                                           ELSE "Review unliked")
                                       EXCEPT !.likes = Len(local)]
                              ELSE IF j \in Holders(k)
                              THEN [reqs[j] EXCEPT !.behind = TRUE]
                              ELSE reqs[j]]
    /\ UNCHANGED <<users, nextBookId, nextReviewId>>

LikeRaceNext ==
    \/ LikeRaceCreate
    \/ LikeRaceSubmit
    \/ \E k \in DOMAIN reqs : LikeRaceFind(k)
    \/ \E k \in DOMAIN reqs : LikeRaceSave(k)
    \/ \E k \in DOMAIN reqs : Respond(k)

LikeRaceSpec == LikeInit /\ [][LikeRaceNext]_vars

(***************************************************************************)
(* DELETE /books/:id await by await, in flight together with               *)
(* POST /books/:id/reviews.                                                *)
(***************************************************************************)
DeleteReq(userId, bookId) ==
    [op |-> "deleteBook", userId |-> userId, bookId |-> bookId, rating |-> 0,
     pc |-> "findOwnBook", status |-> 0, message |-> "", rejectedBy |-> "",
     stats |-> NoStats]

\* protect and validateObjectId have passed; the controller starts.
OrphanSubmitDelete ==
    /\ Len(reqs) < MaxInFlight
    /\ \E h \in Headers, b \in 1..(MaxBooks + 1) :
          /\ protect(DB, h).status = 0
          /\ reqs' = Append(reqs, DeleteReq(protect(DB, h).user, b))
    /\ UNCHANGED <<users, books, reviews, nextBookId, nextReviewId>>

\* await Book.findById(bookId) and the ownership check.
OrphanFindBook(k) ==
    /\ reqs[k].pc = "findOwnBook"
    /\ reqs' = [reqs EXCEPT ![k] =
                  IF deleteBook(DB, reqs[k].bookId, reqs[k].userId).status = 200
                  THEN [@ EXCEPT !.pc = "deleteMany"]
                  ELSE Answer(@, deleteBook(DB, reqs[k].bookId, reqs[k].userId).status,
                              deleteBook(DB, reqs[k].bookId, reqs[k].userId).message)]
    /\ UNCHANGED <<users, books, reviews, nextBookId, nextReviewId>>

\* await Review.deleteMany({ bookId })
OrphanDeleteMany(k) ==
    /\ reqs[k].pc = "deleteMany"
    /\ reviews' = deleteBookReviews(DB, reqs[k].bookId).reviews
    /\ reqs' = [reqs EXCEPT ![k].pc = "findByIdAndDelete"]
    /\ UNCHANGED <<users, books, nextBookId, nextReviewId>>

\* await Book.findByIdAndDelete(bookId), then the response.
OrphanDeleteDoc(k) ==
    /\ reqs[k].pc = "findByIdAndDelete"
    /\ books' = deleteBookDoc(DB, reqs[k].bookId).books
    /\ reqs' = [reqs EXCEPT ![k] =
                  Answer(@, 200, "Book and associated reviews deleted successfully")]
    /\ UNCHANGED <<users, reviews, nextBookId, nextReviewId>>

OrphanNext ==
    \/ RaceSubmit
    \/ OrphanSubmitDelete
    \/ \E k \in DOMAIN reqs : RaceFindBook(k)
    \/ \E k \in DOMAIN reqs : RacePreCheck(k)
    \/ \E k \in DOMAIN reqs : RacePreSave(k)
    \/ \E k \in DOMAIN reqs : RaceInsert(k)
    \/ \E k \in DOMAIN reqs : RaceAggregate(k)
    \/ \E k \in DOMAIN reqs : RaceSaveBook(k)
    \/ \E k \in DOMAIN reqs : OrphanFindBook(k)
    \/ \E k \in DOMAIN reqs : OrphanDeleteMany(k)
    \/ \E k \in DOMAIN reqs : OrphanDeleteDoc(k)
    \/ \E k \in DOMAIN reqs : Respond(k)

OrphanSpec == RaceInit /\ [][OrphanNext]_vars

(***************************************************************************)
(* The front end: hooks/useAuth.ts over lib/api.ts, against the server's   *)
(* auth routes.  reqs holds the one browser session: the localStorage      *)
(* item 'token', the hook's authState and the call it awaits (pc).         *)
(***************************************************************************)
\* String(undefined), what localStorage.setItem stores for undefined.
UndefinedItem == [userId |-> NoUser, sig |-> "undefined", expired |-> FALSE]

Session(token, pc) ==
    [token |-> token, user |-> NoUser, loading |-> TRUE, error |-> "",
     pc |-> pc, email |-> "", password |-> "", status |-> 0]

\* The JSON body the server writes for an outcome of the auth controller.
Body(out) ==
    IF out.status \in {200, 201}
    THEN [status |-> "success", message |-> out.message,
          data |-> [token |-> out.token, user |-> out.token.userId]]
    ELSE [status |-> "error", message |-> out.message]

\* response.data.token and response.data.user, where response.data is the
\* body: a property the object does not have reads as undefined.
dataToken(body) == IF "token" \in DOMAIN body THEN body.token ELSE UndefinedItem

dataUser(body) == IF "user" \in DOMAIN body THEN body.user ELSE Absent

\* The hook's state after the await of login or signup, for the server's
\* outcome out: axios resolves on 2xx and rejects otherwise, and the
\* response interceptor removes the token on 401.
afterAuthCall(session, out) ==
    IF out.status \in {200, 201}
    THEN [session EXCEPT !.token = dataToken(Body(out)),
                         !.user = dataUser(Body(out)),
                         !.loading = FALSE,
                         !.pc = "idle", !.status = out.status]
    ELSE [session EXCEPT !.token = IF out.status = 401 THEN NoToken ELSE @,
                         !.error = Body(out).message,
                         !.loading = FALSE,
                         !.pc = "idle", !.status = out.status]

\* useEffect on mount: without a token loading ends; with one the health
\* route is fetched and the token is removed when the fetch fails.
HookMount ==
    /\ reqs[1].pc = "mount"
    /\ \E ok \in BOOLEAN :
          reqs' = <<[reqs[1] EXCEPT !.token = IF ok THEN @ ELSE NoToken,
                                    !.loading = FALSE, !.pc = "idle"]>>
    /\ UNCHANGED <<users, books, reviews, nextBookId, nextReviewId>>

\* The page is loaded again: the hook's state is rebuilt, localStorage stays.
HookReload ==
    /\ reqs[1].pc = "idle"
    /\ reqs' = <<Session(reqs[1].token, "mount")>>
    /\ UNCHANGED <<users, books, reviews, nextBookId, nextReviewId>>

\* login and signup up to their await.
HookCall ==
    /\ reqs[1].pc = "idle"
    /\ \E op \in {"login", "signup"}, e \in RawEmails, p \in LoginPasswords :
          reqs' = <<[reqs[1] EXCEPT !.loading = TRUE, !.error = "", !.pc = op,
                                    !.email = e, !.password = p, !.status = 0]>>
    /\ UNCHANGED <<users, books, reviews, nextBookId, nextReviewId>>

\* POST /auth/login answers; login resumes.
HookLoginReturn ==
    /\ reqs[1].pc = "login"
    /\ LET out == Login(DB, reqs[1].email, reqs[1].password)
       IN  /\ reqs' = <<afterAuthCall(reqs[1], out)>>
           /\ SetStores(out.db)

\* POST /auth/signup answers; signup resumes.  The body the hook sends has
\* name, email and password: the server reads no username.
HookSignupReturn ==
    /\ reqs[1].pc = "signup"
    /\ \E out \in Signup(DB, "", reqs[1].email, reqs[1].password) :
          /\ reqs' = <<afterAuthCall(reqs[1], out)>>
          /\ SetStores(out.db)

\* logout up to its await.
HookLogout ==
    /\ reqs[1].pc = "idle"
    /\ reqs' = <<[reqs[1] EXCEPT !.pc = "logout", !.status = 0]>>
    /\ UNCHANGED <<users, books, reviews, nextBookId, nextReviewId>>

\* POST /auth/logout resolves or rejects; catch logs, finally clears.
HookLogoutReturn ==
    /\ reqs[1].pc = "logout"
    /\ \E status \in {200, 404} :
          reqs' = <<[reqs[1] EXCEPT !.token = NoToken, !.user = NoUser,
                                    !.loading = FALSE, !.pc = "idle",
                                    !.status = status]>>
    /\ UNCHANGED <<users, books, reviews, nextBookId, nextReviewId>>

HookInit ==
    /\ users = SeedUsers(MaxUsers)
    /\ books = <<>>
    /\ reviews = <<>>
    /\ nextBookId = 1
    /\ nextReviewId = 1
    /\ reqs = <<Session(NoToken, "mount")>>

HookNext ==
    \/ HookMount
    \/ HookReload
    \/ HookCall
    \/ HookLoginReturn
    \/ HookSignupReturn
    \/ HookLogout
    \/ HookLogoutReturn

HookSpec == HookInit /\ [][HookNext]_vars

(***************************************************************************)
(* The review routes served one at a time for enough users that the mean   *)
(* of a book's ratings falls half-way between two tenths.                  *)
(***************************************************************************)
VoteRatings == {2, 3}

VoteCreate ==
    \E u \in 1..MaxVoters, b \in BookIds, r \in VoteRatings :
        Commit(CreateReview(DB, BearerFor(u), b, r, OkText), MaxVoters)

VoteUpdate ==
    \E u \in 1..MaxVoters, i \in 1..MaxVoters, r \in VoteRatings :
        Commit(UpdateReview(DB, BearerFor(u), i, r, OkText), MaxVoters)

VoteDelete ==
    \E u \in 1..MaxVoters, i \in 1..MaxVoters :
        Commit(DeleteReview(DB, BearerFor(u), i), MaxVoters)

VoteInit ==
    /\ users = SeedUsers(MaxVoters)
    /\ books = SeedBooks
    /\ reviews = <<>>
    /\ nextBookId = MaxBooks + 1
    /\ nextReviewId = 1
    /\ reqs = <<>>

VoteNext == VoteCreate \/ VoteUpdate \/ VoteDelete

VoteSpec == VoteInit /\ [][VoteNext]_vars

(***************************************************************************)
(* The three review mutations in flight together, await by await, on the   *)
(* seeded books.  A request carries the book document its hook loaded and  *)
(* the result of its aggregate.                                            *)
(***************************************************************************)
MutReq(op, userId, bookId, reviewId, rating, pc) ==
    [op |-> op, userId |-> userId, bookId |-> bookId, reviewId |-> reviewId,
     rating |-> rating, pc |-> pc, status |-> 0, message |-> "",
     rejectedBy |-> "", stats |-> NoStats, loaded |-> NoStats]

\* The success response of a mutation, sent when its hook has returned.
Success(req) ==
    CASE req.op = "createReview" -> Answer(req, 201, "Review submitted successfully")
      [] req.op = "updateReview" -> Answer(req, 200, "Review updated successfully")
      [] OTHER -> Answer(req, 200, "Review deleted successfully")

\* The rating field of the bodies sent: two valid values and one above the
\* range.
MutRatings == RaceRatings \cup {6}

\* validateReview ahead of the controller: a body it refuses is answered 400.
Validated(req) ==
    IF validateReview(req.rating, OkText) THEN req
    ELSE Answer(req, 400, "Validation failed")

\* POST /books/:id/reviews past protect: validateReview, then createReview.
MutSubmitCreate ==
    /\ Len(reqs) < MaxInFlight
    /\ nextReviewId + Cardinality(BeforeInsert) <= MaxReviews
    /\ \E u \in {x.id : x \in users}, b \in BookIds, r \in MutRatings :
          reqs' = Append(reqs, Validated(MutReq("createReview", u, b, 0, r, "findBook")))
    /\ UNCHANGED <<users, books, reviews, nextBookId, nextReviewId>>

\* PUT /reviews/:id past protect: validateReview, then updateReview.
MutSubmitUpdate ==
    /\ Len(reqs) < MaxInFlight
    /\ \E u \in {x.id : x \in users}, i \in 1..MaxReviews, r \in MutRatings :
          reqs' = Append(reqs, Validated(MutReq("updateReview", u, 0, i, r, "findReview")))
    /\ UNCHANGED <<users, books, reviews, nextBookId, nextReviewId>>

\* DELETE /reviews/:id past protect.
MutSubmitDelete ==
    /\ Len(reqs) < MaxInFlight
    /\ \E u \in {x.id : x \in users}, i \in 1..MaxReviews :
          reqs' = Append(reqs, MutReq("deleteReview", u, 0, i, 0, "findReview"))
    /\ UNCHANGED <<users, books, reviews, nextBookId, nextReviewId>>

\* await Review.findById(reviewId) of updateReview and deleteReview, and
\* the ownership check on the document found.
MutFindReview(k) ==
    /\ reqs[k].pc = "findReview"
    /\ reqs' = [reqs EXCEPT ![k] =
                  IF reqs[k].reviewId \notin DOMAIN reviews
                  THEN Answer(@, 404, "Review not found")
                  ELSE IF reviews[reqs[k].reviewId].userId # reqs[k].userId
                  THEN Answer(@, 403, IF reqs[k].op = "updateReview"
                                      THEN "You can only update your own reviews"
                                      ELSE "You can only delete your own reviews")
                  ELSE [@ EXCEPT !.pc = "write",
                                 !.bookId = reviews[reqs[k].reviewId].bookId]]
    /\ UNCHANGED <<users, books, reviews, nextBookId, nextReviewId>>

\* await review.save() of updateReview: the update of a document that was
\* deleted meanwhile throws into the catch block.  await
\* Review.findByIdAndDelete(reviewId) of deleteReview: the hook runs only
\* when a document was deleted.
MutWrite(k) ==
    /\ reqs[k].pc = "write"
    /\ IF reqs[k].reviewId \notin DOMAIN reviews
       THEN /\ reqs' = [reqs EXCEPT ![k] =
                          IF reqs[k].op = "updateReview"
                          THEN Answer(@, 500, "Internal server error while updating review")
                          ELSE Success(@)]
            /\ UNCHANGED reviews
       ELSE /\ reviews' = IF reqs[k].op = "updateReview"
                          THEN [reviews EXCEPT ![reqs[k].reviewId].rating = reqs[k].rating]
                          ELSE Remove(reviews, {reqs[k].reviewId})
            /\ reqs' = [reqs EXCEPT ![k].pc = "aggregate"]
    /\ UNCHANGED <<users, books, nextBookId, nextReviewId>>

\* The post hook: await Book.findById(doc.bookId).
MutHookFind(k) ==
    /\ reqs[k].pc = "aggregate"
    /\ reqs' = [reqs EXCEPT ![k] =
                  IF reqs[k].bookId \notin DOMAIN books THEN Success(@)
                  ELSE [@ EXCEPT !.pc = "hookAggregate",
                                 !.loaded = [averageRating |-> books[reqs[k].bookId].averageRating,
                                             totalReviews |-> books[reqs[k].bookId].totalReviews]]]
    /\ UNCHANGED <<users, books, reviews, nextBookId, nextReviewId>>

\* updateRatingStats: await Review.aggregate([...]) and the assignments.
MutHookAggregate(k) ==
    /\ reqs[k].pc = "hookAggregate"
    /\ reqs' = [reqs EXCEPT ![k].pc = "hookSave",
                            ![k].stats = RatingStats(reviews, reqs[k].bookId)]
    /\ UNCHANGED <<users, books, reviews, nextBookId, nextReviewId>>

\* updateRatingStats: this.save() writes the paths whose value differs from
\* the loaded document; then the hook returns and the response is sent.
MutHookSave(k) ==
    /\ reqs[k].pc = "hookSave"
    /\ books' =
          IF reqs[k].bookId \notin DOMAIN books THEN books
          ELSE [books EXCEPT
                  ![reqs[k].bookId].averageRating =
                      IF reqs[k].stats.averageRating # reqs[k].loaded.averageRating
                      THEN reqs[k].stats.averageRating ELSE @,
                  ![reqs[k].bookId].totalReviews =
                      IF reqs[k].stats.totalReviews # reqs[k].loaded.totalReviews
                      THEN reqs[k].stats.totalReviews ELSE @]
    /\ reqs' = [reqs EXCEPT ![k] = Success(@)]
    /\ UNCHANGED <<users, reviews, nextBookId, nextReviewId>>

MutNext ==
    \/ MutSubmitCreate
    \/ MutSubmitUpdate
    \/ MutSubmitDelete
    \/ \E k \in DOMAIN reqs : RaceFindBook(k)
    \/ \E k \in DOMAIN reqs : RacePreCheck(k)
    \/ \E k \in DOMAIN reqs : RacePreSave(k)
    \/ \E k \in DOMAIN reqs : RaceInsert(k)
    \/ \E k \in DOMAIN reqs : MutFindReview(k)
    \/ \E k \in DOMAIN reqs : MutWrite(k)
    \/ \E k \in DOMAIN reqs : MutHookFind(k)
    \/ \E k \in DOMAIN reqs : MutHookAggregate(k)
    \/ \E k \in DOMAIN reqs : MutHookSave(k)
    \/ \E k \in DOMAIN reqs : Respond(k)

MutSpec == RaceInit /\ [][MutNext]_vars

(***************************************************************************)
(* Properties.                                                             *)
(***************************************************************************)
UserIds == {u.id : u \in users}

\* The header carries a bearer token that verifies (signature and expiry)
\* and whose userId is the id of a stored user.
Authentic(h) ==
    /\ h.scheme = "Bearer"
    /\ h.token # NoToken
    /\ h.token.sig = "ok"
    /\ ~h.token.expired
    /\ \E u \in users : u.id = h.token.userId

\* The sum of the ratings of the stored reviews of book b, by review id.
RatingSum(revs, b) ==
    LET top == IF DOMAIN revs = {} THEN 0
               ELSE CHOOSE m \in DOMAIN revs : \A k \in DOMAIN revs : k <= m
        f[i \in 0..top] ==
            IF i = 0 THEN 0
            ELSE f[i - 1] + (IF i \in DOMAIN revs /\ revs[i].bookId = b
                             THEN revs[i].rating ELSE 0)
    IN  f[top]

RatingCount(revs, b) == Cardinality({i \in DOMAIN revs : revs[i].bookId = b})

\* a tenths = the mean s / n rounded to one decimal, halves up:
\* a <= 10 s / n + 1/2 < a + 1.
IsRoundedMean(a, s, n) ==
    /\ 2 * n * a <= 20 * s + n
    /\ 20 * s + n < 2 * n * a + 2 * n

\* Book b of the stores db carries the true count and rounded mean of its
\* reviews.
AggregatesTrue(db, b) ==
    LET n == RatingCount(db.reviews, b)
        s == RatingSum(db.reviews, b)
    IN  /\ db.books[b].totalReviews = n
        /\ n > 0 => IsRoundedMean(db.books[b].averageRating, s, n)

\* C13: createBook answers 400 "A book with this title and author already
\* exists" and inserts nothing when a stored book has the same title and
\* the same author up to letter case; otherwise it inserts exactly one book
\* (title, author) with createdBy the acting user, averageRating 0 and
\* totalReviews 0.
C13_CreateBookConflict ==
    \A u \in UserIds, t \in CatalogTitles, a \in Authors :
        LET out == CreateBook(DB, BearerFor(u), t, a)
        IN  IF \E b \in DOMAIN books :
                  Lower(books[b].title) = Lower(t) /\ Lower(books[b].author) = Lower(a)
            THEN /\ out.status = 400
                 /\ out.message = "A book with this title and author already exists"
                 /\ out.db = DB
            ELSE /\ out.status = 201
                 /\ \E n \in DOMAIN out.db.books \ DOMAIN books :
                       /\ DOMAIN out.db.books = DOMAIN books \cup {n}
                       /\ out.db.books[n] =
                             [title |-> t, author |-> a, createdBy |-> u,
                              averageRating |-> 0, totalReviews |-> 0]
                 /\ \A b \in DOMAIN books : out.db.books[b] = books[b]
                 /\ out.db.reviews = reviews

\* What C14 asks of the response res to a listing request for page p with
\* limit l over the ordered result.
PageOf(res, ordered, p, l) ==
    LET total == Len(ordered)
        rest == total - (p - 1) * l
        size == IF rest < 0 THEN 0 ELSE IF rest < l THEN rest ELSE l
    IN  /\ res.status = 200
        /\ res.total = total
        /\ res.totalPages * l >= total
        /\ (res.totalPages - 1) * l < total
        /\ res.totalPages >= 0
        /\ Len(res.items) = size
        /\ \A k \in 1..size : res.items[k] = ordered[(p - 1) * l + k]
        /\ res.hasNext = (p < res.totalPages)
        /\ res.hasPrev = (p > 1)

\* C14: a listing of total items, page p (from 1) and limit l in 1..100 has
\* totalPages = ceil(total / l), holds items (p-1)*l+1 .. p*l of the ordered
\* result (min(l, max(0, total - (p-1)*l)) of them), hasNext iff p <
\* totalPages and hasPrev iff p > 1; with l = 10 and total = 25, pages 1 and
\* 2 hold 10 items, page 3 holds 5, and hasNext is false only on page 3.
C14_Pagination ==
    /\ \A p \in RawPages \ {Absent, 0}, l \in RawLimits \ {Absent, 0, 101} :
          /\ PageOf(GetAllBooks(DB, p, l), SortByCreatedAtDesc(DOMAIN books), p, l)
          /\ PageOf(SearchBooks(DB, "herb", "author", p, l),
                    SortByRatingDesc(books, DOMAIN books), p, l)
    /\ Cardinality(DOMAIN books) = 25 =>
          /\ Len(GetAllBooks(DB, 1, 10).items) = 10
          /\ Len(GetAllBooks(DB, 2, 10).items) = 10
          /\ Len(GetAllBooks(DB, 3, 10).items) = 5
          /\ GetAllBooks(DB, 1, 10).hasNext
          /\ GetAllBooks(DB, 2, 10).hasNext
          /\ ~GetAllBooks(DB, 3, 10).hasNext
    /\ \A k \in DOMAIN reqs :
          (reqs[k].res.status = 200 /\ reqs[k].page >= 1 /\ reqs[k].limit >= 1)
          => PageOf(reqs[k].res,
                    IF reqs[k].op = "searchBooks"
                    THEN SortByRatingDesc(books, DOMAIN books)
                    ELSE SortByCreatedAtDesc(DOMAIN books),
                    reqs[k].page, reqs[k].limit)

\* 25 books are listed and page 3 of limit 10 was requested: it holds the
\* five oldest books.
C14_Witness ==
    /\ Cardinality(DOMAIN books) = 25
    /\ reqs # <<>>
    /\ reqs[1].op = "getAllBooks"
    /\ reqs[1].page = 3
    /\ reqs[1].limit = 10
    /\ reqs[1].res.items = <<5, 4, 3, 2, 1>>
    /\ reqs[1].res.totalPages = 3
    /\ ~reqs[1].res.hasNext
    /\ reqs[1].res.hasPrev

\* The listing operations that take page and limit.
Paged == {"getAllBooks", "searchBooks", "getBookById", "getUserReviews"}

\* C15: every listing endpoint (book list, search, reviews nested in
\* getBook, reviews for a book, reviews by a user) numbers pages from 1,
\* defaults the limit to 10 (5 for the nested review list) and never works
\* with a limit above 100, so no listing response holds more than 100 items.
C15_ListingLimits ==
    \A k \in DOMAIN reqs :
        LET r == reqs[k]
        IN  (r.op \in Paged \cup {"getBookReviews"} /\ r.res.status = 200) =>
                /\ Len(r.res.items) <= 100
                /\ r.op \in Paged =>
                      /\ r.res.currentPage >= 1
                      /\ r.res.limit <= 100
                      /\ r.limit = Absent =>
                            r.res.limit = IF r.op = "getBookById" THEN 5 ELSE 10

\* The books whose title, author, or either contains q, case ignored.
Containing(q, type) ==
    {b \in DOMAIN books :
        CASE type = "title" -> Contains(Lower(books[b].title), Lower(q))
          [] type = "author" -> Contains(Lower(books[b].author), Lower(q))
          [] OTHER -> \/ Contains(Lower(books[b].title), Lower(q))
                      \/ Contains(Lower(books[b].author), Lower(q))}

\* C16: search answers 400 to an empty query; otherwise the result set is
\* exactly the books whose title (type=title), author (type=author) or
\* either (type=both, the default) contains the query, case ignored, ordered
\* by averageRating descending then createdAt descending, and totalResults
\* is the size of the full result set whatever page and limit are.
C16_SearchResults ==
    \A k \in DOMAIN reqs :
        LET r == reqs[k]
        IN  r.op = "searchBooks" =>
              /\ r.q = "" => r.res.status = 400
              /\ (/\ r.q # ""
                  /\ validateSearch(r.q, r.type)
                  /\ validatePagination(r.page, r.limit)) =>
                    /\ r.res.status = 200
                    /\ r.res.total = Cardinality(Containing(r.q, r.type))
                    /\ Range(r.res.items) \subseteq Containing(r.q, r.type)
                    /\ r.res.total <= r.res.limit /\ r.res.currentPage = 1
                          => Range(r.res.items) = Containing(r.q, r.type)
                    /\ \A i, j \in DOMAIN r.res.items : i < j =>
                          LET x == books[r.res.items[i]]
                              y == books[r.res.items[j]]
                          IN  \/ x.averageRating > y.averageRating
                              \/ /\ x.averageRating = y.averageRating
                                 /\ r.res.items[i] > r.res.items[j]

\* The statistics st are those of book b: count, mean to one decimal, and
\* the five buckets.
StatsOf(st, b) ==
    LET n == RatingCount(reviews, b)
        sum == RatingSum(reviews, b)
        h == st.ratingDistribution
    IN  /\ st.numReviews = n
        /\ DOMAIN h = 1..5
        /\ \A r \in 1..5 :
              h[r] = Cardinality({i \in DOMAIN reviews :
                                    reviews[i].bookId = b /\ reviews[i].rating = r})
        /\ h[1] + h[2] + h[3] + h[4] + h[5] = n
        /\ n = 0 => st.avgRating = 0
        /\ n > 0 => /\ 2 * n * st.avgRating <= 20 * sum + n
                    /\ 20 * sum - n <= 2 * n * st.avgRating

StatsAnswered ==
    \A k \in DOMAIN reqs :
        reqs[k].op = "getReviewStats" =>
            /\ reqs[k].res.status = 200
            /\ StatsOf(reqs[k].res.stats, reqs[k].id)

StatsReadOnly ==
    (reqs' # <<>> /\ reqs'[1].op = "getReviewStats")
        => UNCHANGED <<users, books, reviews, nextBookId, nextReviewId>>

Handler(chain) == chain[Len(chain)]

\* C19: with first-match dispatch under the mount prefixes, GET
\* /api/reviews/my-reviews goes, behind protect, to the current user's
\* review listing, GET /api/books/:bookId/reviews/stats goes to the
\* histogram handler, neither is taken by GET /api/reviews/:id, and POST
\* /api/books reaches createBook.
C19_RouteDispatch ==
    \A k \in DOMAIN reqs :
        LET r == reqs[k]
        IN  /\ (r.method = "GET" /\ r.path = <<"api", "reviews", "my-reviews">>)
                => /\ Handler(r.chain) = "getMyReviews"
                   /\ r.chain[1] = "protect"
            /\ (r.method = "GET" /\ r.path = <<"api", "books", "1", "reviews", "stats">>)
                => Handler(r.chain) = "getReviewStats"
            /\ (r.method = "POST" /\ r.path = <<"api", "books">>)
                => Handler(r.chain) = "createBook"

\* The fields of request r that break a validation rule.
Violated(r) ==
    IF r.op \in {"createBook", "updateBook"}
    THEN {f \in {"title", "author"} : r[f] = ""}
    ELSE {f \in {"rating", "reviewText"} :
            IF f = "rating" THEN r.rating \notin 1..5 ELSE r.reviewText = "short"}

FormRejected ==
    \A k \in DOMAIN reqs :
        LET r == reqs[k]
        IN  (Violated(r) # {} /\ r.res.by # "protect") =>
                /\ r.res.status = 400
                /\ r.res.by = "handleValidationErrors"
                /\ {r.res.errors[i].path : i \in DOMAIN r.res.errors} = Violated(r)

FormUntouched ==
    (reqs' # <<>> /\ Violated(reqs'[1]) # {})
        => UNCHANGED <<users, books, reviews, nextBookId, nextReviewId>>

C21_RangesHold ==
    /\ \A b \in DOMAIN books :
          /\ books[b].averageRating \in 0..50
          /\ books[b].totalReviews >= 0
    /\ \A i \in DOMAIN reviews : reviews[i].rating \in 1..5

\* While another mutation is in flight, a book's cached aggregates lag
\* behind its reviews, and a body with rating 6 has been refused.
C21_Witness ==
    /\ \E b \in DOMAIN books : ~AggregatesTrue(DB, b)
    /\ \E k \in DOMAIN reqs : reqs[k].pc # "done"
    /\ \E k \in DOMAIN reqs : reqs[k].rating = 6 /\ reqs[k].status = 400

\* Two or more mutations by different users on one book have run together
\* and all of them have completed.
AllCompleted ==
    /\ Len(reqs) >= 2
    /\ \A k \in DOMAIN reqs : reqs[k].pc = "done" /\ reqs[k].status \in {200, 201}
    /\ \A j, k \in DOMAIN reqs :
          /\ reqs[j].bookId = reqs[k].bookId
          /\ j # k => reqs[j].userId # reqs[k].userId

\* C22: when review mutations (create, update, delete, by different users)
\* on one book run with their store write, aggregation read and aggregate
\* write interleaved, then once all of them have completed the book's
\* averageRating and totalReviews are the rounded mean and the count of its
\* current reviews: no aggregate write based on an older read overwrites a
\* newer one.
C22_ConcurrentAggregatesSettle ==
    AllCompleted => AggregatesTrue(DB, reqs[1].bookId)

\* Two stored books share title and author up to letter case.
SharedTitleAuthor ==
    \E b1, b2 \in DOMAIN books :
        /\ b1 # b2
        /\ Lower(books[b1].title) = Lower(books[b2].title)
        /\ Lower(books[b1].author) = Lower(books[b2].author)

\* C23: the duplicate-book rule is checked only inside createBook and is no
\* constraint of the store: a createBook request is turned down only by its
\* own findOne, never by the insert, so two concurrent requests with the
\* same title and author that both pass the check are both inserted; and
\* updateBook by the owner succeeds whatever the other books are called.
C23_DuplicateRuleNotEnforced ==
    /\ \A k \in DOMAIN reqs :
          reqs[k].pc = "done" =>
              /\ reqs[k].status \in {201, 400}
              /\ reqs[k].rejectedBy \in {"", "findOne"}
    /\ \A b \in DOMAIN books, t \in Titles, a \in Authors :
          LET out == UpdateBook(DB, BearerFor(books[b].createdBy), b, t, a)
          IN  /\ out.status = 200
              /\ out.db.books[b].title = t
              /\ out.db.books[b].author = a

\* Two createBook requests with the same title and author have both been
\* answered 201 and both books are stored.
C23_Witness ==
    /\ Len(reqs) = 2
    /\ reqs[1].status = 201
    /\ reqs[2].status = 201
    /\ reqs[1].title = reqs[2].title
    /\ reqs[1].author = reqs[2].author
    /\ SharedTitleAuthor

\* No user id occurs twice in the likes of a stored review.
LikesAreSets ==
    \A i \in DOMAIN reviews :
        Cardinality(Range(reviews[i].likes)) = Len(reviews[i].likes)

\* A toggle that is answered 200 in this step returns the number of
\* distinct users who like the review.
LikeCountRight ==
    \A k \in DOMAIN reqs :
        (/\ Len(reqs') = Len(reqs)
         /\ reqs[k].op = "toggleLikeReview"
         /\ reqs[k].pc = "save"
         /\ reqs'[k].pc = "done"
         /\ reqs'[k].status = 200)
        => reqs'[k].likes = Cardinality(Range(reviews'[reqs[k].reviewId].likes))

\* C24: a review's likes is a set: in every reachable state, also when one
\* user sends two toggleLike requests for one review that both read the
\* likes before either writes, no user id occurs more than once in a
\* review's likes, and the like count returned is the number of distinct
\* liking users.
C24_LikesStaySet == []LikesAreSets /\ [][LikeCountRight]_vars

\* C25: under any interleaving of createReview with deleteBook on one book,
\* once the requests have completed every stored review refers to a stored
\* book.
C25_NoOrphanReviews ==
    (\A k \in DOMAIN reqs : reqs[k].pc = "done")
    => \A i \in DOMAIN reviews : reviews[i].bookId \in DOMAIN books

\* The order of the steps of a protected route: out is its response to a
\* request with header hdr whose body is valid or not, controller the name
\* of its controller.
InOrder(out, hdr, valid, controller) ==
    /\ protect(DB, hdr).status # 0
       => out.status = 401 /\ out.by = "protect" /\ out.db = DB
    /\ (protect(DB, hdr).status = 0 /\ ~valid)
       => out.status = 400 /\ out.by = "handleValidationErrors" /\ out.db = DB
    /\ out.by = controller <=> (protect(DB, hdr).status = 0 /\ valid)

\* C26: on every protected route authentication runs first, then request
\* validation, then the controller: a request without a valid token is
\* answered 401 whatever its body, a controller answers only requests that
\* passed both, and the ownership-gated controllers answer 404 for a
\* missing book or review, never 403.
C26_StepOrder ==
    \A h \in Headers :
        /\ \A t \in RawTitles, a \in FormAuthors :
              /\ InOrder(CreateBook(DB, h, t, a), h, validateBook(t, a),
                         "createBook")
              /\ \A b \in 1..(MaxBooks + 1) :
                    /\ InOrder(UpdateBook(DB, h, b, t, a), h, validateBook(t, a),
                               "updateBook")
                    /\ b \notin DOMAIN books
                       => UpdateBook(DB, h, b, t, a).status \in {401, 400, 404}
        /\ \A r \in FormRatings, x \in FormTexts :
              /\ \A b \in 1..(MaxBooks + 1) :
                    InOrder(CreateReview(DB, h, b, r, x), h, validateReview(r, x),
                            "createReview")
              /\ \A i \in 1..(MaxReviews + 1) :
                    /\ InOrder(UpdateReview(DB, h, i, r, x), h,
                               validateReview(r, x), "updateReview")
                    /\ i \notin DOMAIN reviews
                       => UpdateReview(DB, h, i, r, x).status \in {401, 400, 404}
        /\ \A b \in 1..(MaxBooks + 1) :
              /\ InOrder(DeleteBook(DB, h, b), h, TRUE, "deleteBook")
              /\ b \notin DOMAIN books
                 => DeleteBook(DB, h, b).status \in {401, 404}
        /\ \A i \in 1..(MaxReviews + 1) :
              /\ InOrder(DeleteReview(DB, h, i), h, TRUE, "deleteReview")
              /\ i \notin DOMAIN reviews
                 => DeleteReview(DB, h, i).status \in {401, 404}
              /\ InOrder(ToggleLike(DB, h, i), h, TRUE, "toggleLikeReview")

\* A request without a token whose body breaks the rating rule has been
\* answered by protect, while books and reviews of several users are stored.
C26_Witness ==
    /\ ~Idle
    /\ reqs[1].op = "updateReview"
    /\ reqs[1].rating = 0
    /\ reqs[1].res.by = "protect"
    /\ reqs[1].res.status = 401
    /\ \E i, j \in DOMAIN reviews : reviews[i].userId # reviews[j].userId

\* This step answers an updateBook request with 200.
UpdateBookServed ==
    /\ Idle
    /\ reqs' # <<>>
    /\ reqs'[1].op = "updateBook"
    /\ reqs'[1].res.status = 200

\* Book b is stored before and after the step with the same owner and the
\* same aggregates.
BookKept(b) ==
    /\ b \in DOMAIN books'
    /\ books'[b].createdBy = books[b].createdBy
    /\ books'[b].averageRating = books[b].averageRating
    /\ books'[b].totalReviews = books[b].totalReviews

C27_UpdateReviewFrame ==
    \A u \in UserIds, i \in DOMAIN reviews, r \in 1..5 :
        LET out == UpdateReview(DB, BearerFor(u), i, r, OkText)
        IN  out.status = 200 =>
               /\ out.db.reviews = [reviews EXCEPT ![i].rating = r,
                                                   ![i].reviewText = OkText]
               /\ DOMAIN out.db.books = DOMAIN books
               /\ \A b \in DOMAIN books :
                     /\ out.db.books[b].totalReviews = books[b].totalReviews
                     /\ b # reviews[i].bookId
                        => out.db.books[b].averageRating = books[b].averageRating

\* logout has returned in this step.
LoggedOut == reqs[1].pc = "logout" /\ reqs'[1].pc = "idle"

\* login or signup has returned in this step.
AuthReturned == reqs[1].pc \in {"login", "signup"} /\ reqs'[1].pc = "idle"

\* C30: logout ends with the token removed, user null and loading false
\* whether its server call succeeded or failed; a login or signup the
\* server answered 2xx ends with the issued token stored and user set; a
\* failed one leaves user as it was, sets error and ends loading.
C30_HookOutcomes ==
    [][/\ LoggedOut
          => /\ reqs'[1].token = NoToken
             /\ reqs'[1].user = NoUser
             /\ ~reqs'[1].loading
       /\ (AuthReturned /\ reqs'[1].status \in {200, 201})
          => /\ reqs'[1].token.sig = "ok"
             /\ reqs'[1].user = reqs'[1].token.userId
             /\ reqs'[1].user \in UserIds
             /\ ~reqs'[1].loading
       /\ (AuthReturned /\ reqs'[1].status \notin {200, 201})
          => /\ reqs'[1].user = reqs[1].user
             /\ reqs'[1].error # ""
             /\ ~reqs'[1].loading]_vars

\* C29: with every request completed, for every book with at least one
\* review the average getReviewStats returns equals the book's cached
\* averageRating and its numReviews equals the book's totalReviews.
C29_StatsAgreeWithCache ==
    \A b \in DOMAIN books :
        (RatingCount(reviews, b) >= 1 /\ AggregatesTrue(DB, b))
        => /\ GetReviewStats(DB, b).stats.avgRating = books[b].averageRating
           /\ GetReviewStats(DB, b).stats.numReviews = books[b].totalReviews

SamePair(r1, r2) == r1.bookId = r2.bookId /\ r1.userId = r2.userId

\* C2: in every state, whatever the interleaving of the createReview
\* requests in flight, no two stored reviews have the same (bookId, userId).
C2_OneReviewPerPair ==
    \A i, j \in DOMAIN reviews : SamePair(reviews[i], reviews[j]) => i = j

\* Two requests for one pair both passed the pre-check and the pre-save
\* hook; one inserted, the unique index turned the other down.
C2_Witness ==
    \E k, l \in DOMAIN reqs :
        /\ k # l
        /\ SamePair(reqs[k], reqs[l])
        /\ reqs[k].pc = "done"
        /\ reqs[k].rejectedBy = "unique index"
        /\ reqs[l].status = 201
        /\ Cardinality({i \in DOMAIN reviews : SamePair(reviews[i], reqs[k])}) = 1

\* C3: a createReview request that passed the controller's pre-check and
\* is then turned down by the pre-save hook or by the unique index is
\* answered like one the pre-check turns down: 400 "You have already
\* reviewed this book".
C3_RaceLoserSameConflict ==
    \A k \in DOMAIN reqs :
        (reqs[k].pc = "done" /\ reqs[k].rejectedBy \in {"pre-save", "unique index"})
        => /\ reqs[k].status = 400
           /\ reqs[k].message = "You have already reviewed this book"

Registered(email) == \E u \in users : u.email = normalizeEmail(email)

\* The stored hash of the user registered under email is the hash of password.
Matches(email, password) ==
    \E u \in users : u.email = normalizeEmail(email) /\ u.password = hashPassword(password)

LoginResponse(out) ==
    [status |-> out.status, message |-> out.message, token |-> out.token]

\* C9: login answers an unknown email and a known email with a wrong
\* password with the same response (401, "Invalid email or password", no
\* token); it issues a token only when the email is registered and the
\* password matches, and the token carries that user's id; login writes
\* nothing.
C9_LoginIndistinguishable ==
    /\ \A e \in RawEmails, p \in LoginPasswords \ {""} :
          LET out == Login(DB, e, p)
          IN  /\ out.db = DB
              /\ IF Matches(e, p)
                 THEN /\ out.status = 200
                      /\ \E u \in users : /\ u.email = normalizeEmail(e)
                                          /\ out.token = generateToken(u.id)
                 ELSE /\ out.status = 401
                      /\ out.message = "Invalid email or password"
                      /\ out.token = NoToken
    /\ \A e1, e2 \in RawEmails, p1, p2 \in LoginPasswords \ {""} :
          (~Registered(e1) /\ Registered(e2) /\ ~Matches(e2, p2))
          => LoginResponse(Login(DB, e1, p1)) = LoginResponse(Login(DB, e2, p2))
    /\ \A k \in DOMAIN reqs :
          (reqs[k].op = "login" /\ reqs[k].token # NoToken)
          => \E u \in users : /\ u.email = reqs[k].email
                              /\ u.password = hashPassword(reqs[k].password)
                              /\ reqs[k].token = generateToken(u.id)

\* One user is registered and has logged in; the other address is unknown,
\* and the registered one with the other password is answered the same.
C9_Witness ==
    /\ \E k \in DOMAIN reqs :
          /\ reqs[k].op = "login"
          /\ reqs[k].status = 200
          /\ reqs[k].token = generateToken(1)
    /\ \E e1, e2 \in RawEmails, p \in LoginPasswords \ {""} :
          /\ ~Registered(e1)
          /\ Registered(e2)
          /\ ~Matches(e2, p)
          /\ Login(DB, e1, p).status = 401
          /\ Login(DB, e2, p).status = 401

UsernameTaken(username) == \E u \in users : u.username = username

\* C10: signup with a registered username or email answers 400 "User with
\* this <field> already exists", where <field> is one that is taken, and
\* adds no user; otherwise it adds exactly one user (username, normalised
\* email, hashed password, fresh id) and returns a token with that id; and
\* in every state, whatever the interleaving of the signups in flight, no
\* two users share an email, a username or an id.
C10_SignupConflicts ==
    /\ \A u, v \in users :
          (u.email = v.email \/ u.username = v.username \/ u.id = v.id) => u = v
    /\ \A n \in Usernames, e \in RawEmails, p \in SignupPasswords \ {"weak"} :
          /\ Signup(DB, n, e, p) # {}
          /\ \A out \in Signup(DB, n, e, p) :
                IF UsernameTaken(n) \/ Registered(e)
                THEN /\ out.status = 400
                     /\ out.db = DB
                     /\ out.token = NoToken
                     /\ \/ /\ out.message = "User with this email already exists"
                           /\ Registered(e)
                        \/ /\ out.message = "User with this username already exists"
                           /\ UsernameTaken(n)
                ELSE /\ out.status = 201
                     /\ \E nu \in out.db.users \ users :
                           /\ out.db.users = users \cup {nu}
                           /\ nu.username = n
                           /\ nu.email = normalizeEmail(e)
                           /\ nu.password = hashPassword(p)
                           /\ \A u \in users : u.id # nu.id
                           /\ out.token = generateToken(nu.id)
    /\ \A k \in DOMAIN reqs :
          (reqs[k].op = "signup" /\ reqs[k].pc = "done") =>
             /\ reqs[k].message = "User with this email already exists"
                   => /\ reqs[k].token = NoToken
                      /\ \E u \in users : u.email = reqs[k].email
             /\ reqs[k].message = "User with this username already exists"
                   => /\ reqs[k].token = NoToken
                      /\ \E u \in users : u.username = reqs[k].username
             /\ reqs[k].status = 201
                   => \E u \in users : /\ u.username = reqs[k].username
                                       /\ u.email = reqs[k].email
                                       /\ reqs[k].token = generateToken(u.id)

\* Two signups with one email and different usernames were in flight
\* together, both past findOne: one was registered, the other was turned
\* down over the email, and one user is stored.
C10_Witness ==
    \E k, l \in DOMAIN reqs :
        /\ reqs[k].op = "signup" /\ reqs[l].op = "signup"
        /\ reqs[k].email = reqs[l].email
        /\ reqs[k].username # reqs[l].username
        /\ reqs[k].status = 201
        /\ reqs[k].token = generateToken(1)
        /\ reqs[l].status = 400
        /\ reqs[l].message = "User with this email already exists"
        /\ Cardinality(users) = 1
        /\ ~UsernameTaken(reqs[l].username)

\* C11: two consecutive toggleLikeReview calls by one user on one review
\* answer "Review liked" then "Review unliked" (or the reverse), each with
\* the resulting number of likes, which differs by exactly one from the
\* number before the call; after the second call the review's like set and
\* like count are what they were before the first.
C11_ToggleLikeInvolution ==
    \A u \in UserIds, i \in DOMAIN reviews :
        LET before == reviews[i].likes
            first == ToggleLike(DB, BearerFor(u), i)
            second == ToggleLike(first.db, BearerFor(u), i)
        IN  /\ first.status = 200 /\ second.status = 200
            /\ first.message = (IF u \in Range(before) THEN "Review unliked"
                                ELSE "Review liked")
            /\ second.message = (IF u \in Range(before) THEN "Review liked"
                                 ELSE "Review unliked")
            /\ first.likes = Len(first.db.reviews[i].likes)
            /\ first.likes = Len(before) + (IF u \in Range(before) THEN -1 ELSE 1)
            /\ second.likes = Len(second.db.reviews[i].likes)
            /\ second.likes = Len(before)
            /\ Range(second.db.reviews[i].likes) = Range(before)
            /\ Range(first.db.reviews[i].likes) # Range(before)

\* A review liked by users 1 and 2, in that order: user 1 unlikes and likes
\* again, and the set {1, 2} is back (as <<2, 1>>).
C11_Witness ==
    \E i \in DOMAIN reviews :
        /\ reviews[i].likes = <<1, 2>>
        /\ ToggleLike(DB, BearerFor(1), i).message = "Review unliked"
        /\ ToggleLike(DB, BearerFor(1), i).likes = 1
        /\ ToggleLike(ToggleLike(DB, BearerFor(1), i).db, BearerFor(1), i)
              .db.reviews[i].likes = <<2, 1>>

\* The cached aggregates of every book, as the stores db hold them.
Aggregates(db) ==
    [b \in DOMAIN db.books |->
        <<db.books[b].averageRating, db.books[b].totalReviews>>]

\* C12: a successful toggleLikeReview changes only the likes of the
\* targeted review: its rating, text, bookId and userId, every other
\* review, and every book's averageRating and totalReviews are as before.
C12_ToggleLikeFrame ==
    \A u \in UserIds, i \in DOMAIN reviews :
        LET out == ToggleLike(DB, BearerFor(u), i)
        IN  out.status = 200 =>
               /\ out.db.reviews = [reviews EXCEPT ![i].likes = out.db.reviews[i].likes]
               /\ out.db.reviews[i].likes # reviews[i].likes
               /\ DOMAIN out.db.books = DOMAIN books
               /\ Aggregates(out.db) = Aggregates(DB)

\* C18: however stale the cached aggregates of a book are, a createReview,
\* updateReview or deleteReview on that book whose aggregation step runs
\* leaves the book with the true count and rounded mean of its reviews.
C18_NextMutationRepairs ==
    /\ \A u \in UserIds, b \in DOMAIN books, r \in 1..5 :
          LET out == CreateReview(DB, BearerFor(u), b, r, OkText)
          IN  out.status = 201 => AggregatesTrue(out.db, b)
    /\ \A u \in UserIds, i \in DOMAIN reviews, r \in 1..5 :
          LET out == UpdateReview(DB, BearerFor(u), i, r, OkText)
          IN  out.status = 200 => AggregatesTrue(out.db, reviews[i].bookId)
    /\ \A u \in UserIds, i \in DOMAIN reviews :
          LET out == DeleteReview(DB, BearerFor(u), i)
          IN  out.status = 200 => AggregatesTrue(out.db, reviews[i].bookId)

\* Book 1 has two reviews and still shows (0, 0): both aggregation steps
\* failed.  Deleting one of the reviews settles it.
C18_Witness ==
    /\ 1 \in DOMAIN books
    /\ RatingCount(reviews, 1) = 2
    /\ books[1].totalReviews = 0
    /\ books[1].averageRating = 0
    /\ \E i \in DOMAIN reviews :
          LET out == DeleteReview(DB, BearerFor(reviews[i].userId), i)
          IN  /\ out.status = 200
              /\ out.db.books[1].totalReviews = 1
              /\ AggregatesTrue(out.db, 1)

\* C1: after any sequence of createReview / updateReview / deleteReview
\* requests, each run to completion, every book's averageRating is the mean
\* of the ratings of its current reviews rounded to one decimal and its
\* totalReviews is their number; ratings 5 and 1 give (3.0, 2), a single
\* rating 1 gives (1.0, 1).
C1_AggregatesSettled ==
    \A b \in DOMAIN books :
        /\ AggregatesTrue(DB, b)
        /\ (RatingCount(reviews, b) = 2 /\ RatingSum(reviews, b) = 6)
              => books[b].averageRating = 30
        /\ (RatingCount(reviews, b) = 1 /\ RatingSum(reviews, b) = 1)
              => books[b].averageRating = 10

\* Three reviews 5, 5, 4 on one book: 4.666... is shown as 4.7.
C1_Witness ==
    \E b \in DOMAIN books :
        /\ RatingCount(reviews, b) = 3
        /\ RatingSum(reviews, b) = 14
        /\ books[b].averageRating = 47
        /\ books[b].totalReviews = 3

Forbidden(out) == out.status = 403 /\ out.db = DB

\* C4: updateBook, deleteBook, updateReview and deleteReview by a user who
\* is not the creator of the book / the author of the review fail with 403
\* Forbidden and leave the book store, the review store and every book's
\* averageRating and totalReviews as they were.
C4_ForbiddenChangesNothing ==
    \A u \in UserIds :
        /\ \A b \in DOMAIN books :
              books[b].createdBy # u =>
                 /\ \A t \in Titles, a \in Authors :
                       Forbidden(UpdateBook(DB, BearerFor(u), b, t, a))
                 /\ Forbidden(DeleteBook(DB, BearerFor(u), b))
        /\ \A i \in DOMAIN reviews :
              reviews[i].userId # u =>
                 /\ \A r \in 1..5 :
                       Forbidden(UpdateReview(DB, BearerFor(u), i, r, OkText))
                 /\ Forbidden(DeleteReview(DB, BearerFor(u), i))

\* A book holds a review by a user other than its creator, and each of the
\* two is refused on the other's entity.
C4_Witness ==
    \E b \in DOMAIN books, i \in DOMAIN reviews :
        /\ reviews[i].bookId = b
        /\ reviews[i].userId # books[b].createdBy
        /\ books[b].totalReviews = 1
        /\ DeleteReview(DB, BearerFor(books[b].createdBy), i).status = 403
        /\ DeleteBook(DB, BearerFor(reviews[i].userId), b).status = 403

\* C5: a deleteReview that removes the last review of a book leaves that
\* book with averageRating 0 and totalReviews 0, and a book that createBook
\* has just inserted, like every book without reviews between requests, has
\* averageRating 0 and totalReviews 0.
C5_EmptyResetsToZero ==
    /\ \A h \in Headers, i \in DOMAIN reviews :
          LET out == DeleteReview(DB, h, i)
              b == reviews[i].bookId
          IN  (out.status = 200 /\ b \in DOMAIN out.db.books
                 /\ ReviewsOf(out.db.reviews, b) = {})
              => /\ out.db.books[b].averageRating = 0
                 /\ out.db.books[b].totalReviews = 0
    /\ \A h \in Headers, t \in Titles, a \in Authors :
          LET out == CreateBook(DB, h, t, a)
          IN  out.status = 201
              => /\ DOMAIN out.db.books = DOMAIN books \cup {nextBookId}
                 /\ out.db.books[nextBookId].averageRating = 0
                 /\ out.db.books[nextBookId].totalReviews = 0
    /\ Idle => \A b \in DOMAIN books :
                  ReviewsOf(reviews, b) = {}
                  => books[b].averageRating = 0 /\ books[b].totalReviews = 0

\* The only book ever created is there, the only review ever written (on
\* it) has been deleted, and the book is back to (0, 0).
C5_Witness ==
    /\ nextBookId = 2
    /\ 1 \in DOMAIN books
    /\ nextReviewId = 2
    /\ reviews = <<>>
    /\ Idle
    /\ books[1].averageRating = 0
    /\ books[1].totalReviews = 0

\* C6: deleteBook by the book's creator first removes every review of the
\* book and then the book: run alone it leaves neither the book nor a
\* review that references it, other books and their reviews are as before,
\* and at no point does a review reference a book that is gone.
C6_DeleteBookCascades ==
    /\ \A i \in DOMAIN reviews : reviews[i].bookId \in DOMAIN books
    /\ ~Idle =>
          /\ reqs[1].bookId \in DOMAIN books
          /\ ReviewsOf(reviews, reqs[1].bookId) = {}
    /\ Idle =>
          \A b \in DOMAIN books :
             LET out == DeleteBook(DB, BearerFor(books[b].createdBy), b)
             IN  /\ out.status = 200
                 /\ DOMAIN out.db.books = DOMAIN books \ {b}
                 /\ \A c \in DOMAIN out.db.books : out.db.books[c] = books[c]
                 /\ DOMAIN out.db.reviews =
                        {i \in DOMAIN reviews : reviews[i].bookId # b}
                 /\ \A i \in DOMAIN out.db.reviews :
                        out.db.reviews[i] = reviews[i]

\* A deleteBook between its two store calls: the book is still there with
\* the count of the reviews it had, they are gone, and the reviews of the
\* other book are not.
C6_Witness ==
    /\ ~Idle
    /\ reqs[1].bookId \in DOMAIN books
    /\ books[reqs[1].bookId].totalReviews > 0
    /\ ReviewsOf(reviews, reqs[1].bookId) = {}
    /\ reviews # <<>>

\* C7: createReview answers 404 when the book does not exist and 400 "You
\* have already reviewed this book" when the acting user has a review of
\* it, inserting nothing and leaving every book as it was; otherwise it
\* inserts exactly one review (bookId, actor, rating, text) and the book's
\* aggregates are recomputed from the reviews including it.
C7_CreateReviewOutcomes ==
    \A u \in UserIds, b \in BookIds, r \in 1..5 :
        LET out == CreateReview(DB, BearerFor(u), b, r, OkText)
        IN  IF b \notin DOMAIN books
            THEN out.status = 404 /\ out.db = DB
            ELSE IF \E i \in DOMAIN reviews :
                       reviews[i].bookId = b /\ reviews[i].userId = u
            THEN /\ out.status = 400
                 /\ out.message = "You have already reviewed this book"
                 /\ out.db = DB
            ELSE /\ out.status = 201
                 /\ \E n \in DOMAIN out.db.reviews \ DOMAIN reviews :
                       /\ DOMAIN out.db.reviews = DOMAIN reviews \cup {n}
                       /\ out.db.reviews[n] =
                             [bookId |-> b, userId |-> u, rating |-> r,
                              reviewText |-> OkText, likes |-> <<>>]
                 /\ \A i \in DOMAIN reviews : out.db.reviews[i] = reviews[i]
                 /\ DOMAIN out.db.books = DOMAIN books
                 /\ out.db.books[b].totalReviews = RatingCount(reviews, b) + 1
                 /\ IsRoundedMean(out.db.books[b].averageRating,
                                  RatingSum(reviews, b) + r,
                                  RatingCount(reviews, b) + 1)
                 /\ \A c \in DOMAIN books \ {b} : out.db.books[c] = books[c]
                 /\ out.db.books[b].title = books[b].title
                 /\ out.db.books[b].createdBy = books[b].createdBy

\* All three cases in one state: book 1 is gone, book 2 has a review by
\* user 1 (a second one by user 1 is refused) and none by user 2.
C7_Witness ==
    /\ 1 \notin DOMAIN books
    /\ 2 \in DOMAIN books
    /\ Idle
    /\ \E i \in DOMAIN reviews : reviews[i].bookId = 2 /\ reviews[i].userId = 1
    /\ books[2].totalReviews = 1
    /\ CreateReview(DB, BearerFor(1), 1, 5, OkText).status = 404
    /\ CreateReview(DB, BearerFor(1), 2, 5, OkText).status = 400
    /\ CreateReview(DB, BearerFor(2), 2, 5, OkText).status = 201

Controllers ==
    {"createBook", "updateBook", "deleteBook",
     "createReview", "updateReview", "deleteReview"}

\* What C8 asks of the outcome of one protected request with header h.
Gated(h, out) ==
    /\ ~Authentic(h) =>
          /\ out.status = 401
          /\ out.by = "protect"
          /\ out.db = DB
    /\ out.by \in Controllers =>
          /\ Authentic(h)
          /\ out.user = h.token.userId
    /\ out.by \in Controllers \cup {"protect", "handleValidationErrors"}

\* C8: behind protect a controller runs only for a request whose bearer
\* token verifies (signature and expiry) and names a stored user, and then
\* req.user is that user; every other request (no token, invalid, expired,
\* user missing) is answered 401 by protect, no controller runs and no
\* store changes.
C8_GateBeforeHandlers ==
    \A h \in Headers :
        /\ \A t \in RawTitles, a \in Authors :
              /\ Gated(h, CreateBook(DB, h, t, a))
              /\ \A b \in BookIds : Gated(h, UpdateBook(DB, h, b, t, a))
        /\ \A b \in BookIds : Gated(h, DeleteBook(DB, h, b))
        /\ \A body \in ReviewBodies :
              /\ \A b \in BookIds :
                    Gated(h, CreateReview(DB, h, b, body.rating, body.reviewText))
              /\ \A i \in 1..MaxRatings :
                    Gated(h, UpdateReview(DB, h, i, body.rating, body.reviewText))
        /\ \A i \in 1..MaxRatings : Gated(h, DeleteReview(DB, h, i))

\* User 2 created a book through the gate; a token of user 1, an expired
\* token, a forged one and one of a user that does not exist are told apart.
C8_Witness ==
    /\ \E b \in DOMAIN books : books[b].createdBy = 2
    /\ nextBookId <= MaxBooks
    /\ CreateBook(DB, BearerFor(1), "Emma", "Herbert").user = 1
    /\ \A t \in {Token(1, "ok", TRUE), Token(1, "forged", FALSE),
                 Token(MaxRaters + 1, "ok", FALSE)} :
          LET out == CreateBook(DB, [scheme |-> "Bearer", token |-> t],
                                "Emma", "Herbert")
          IN  out.status = 401 /\ out.db = DB

====
